---- MODULE Spec2Model ----
(***************************************************************************)
(* Location analysis and scoring engine of geo_survey_backend.             *)
(*                                                                         *)
(* The model follows one analyze-survey request at a time through          *)
(* analyzeSurvey -> GISService.analyzeLocation -> SurveyResult.create.     *)
(* Every await of the source (pool.query, fetch) is one step.              *)
(*                                                                         *)
(* Numbers: JavaScript doubles are modelled by exact rationals.  A score   *)
(* is an integer number of units of 1/3000 point (the least common         *)
(* denominator of the five formulas), a reported sub-score is an integer   *)
(* number of tenths of a point, a percent is an integer number of          *)
(* hundredths, distances are whole metres and areas whole square metres.   *)
(* null is the empty sequence and a present optional value x is <<x>>.     *)
(***************************************************************************)
EXTENDS Integers, Sequences, FiniteSets, TLC

\* ---------------------------------------------------------------- bounds
MaxRuns == 2
PoiLarge == 120
MaxPercent == 200

\* ------------------------------------------------------ program constants
ISO_MINUTES == 10
DENOISE == 1
FALLBACK_WALK_BUFFER_M == 1000
SUPPORTIVE_CATEGORIES == {"Retail", "Health And Medical", "Accommodation"}
bufferRadiusMeters == 100

Null == <<>>
Some(x) == <<x>>

\* ------------------------------------------------------- spatial store
\* A coordinate pair.  eps = 0 for a stored coordinate, eps = 1 for one that
\* PostGIS recomputed (a centroid of a buffer: within rounding of the centre).
Pt(lon, lat) == [lon |-> lon, lat |-> lat, eps |-> 0]
P1 == Pt(7958, 1800)
P2 == Pt(7990, 1830)

\* rows of ts_warangal_survey_centroids: (village, surveyno, geom)
CentroidRows ==
    { [village |-> "Hanamkonda", surveyno |-> "101", geom |-> P1],
      [village |-> "Hanamkonda", surveyno |-> "102", geom |-> P2] }

\* the (village, surveyNumber) bodies a client posts; "999" matches no row and
\* "" is a missing field
Villages == {"Hanamkonda", ""}
SurveyNumbers == {"101", "102", "999"}

\* GeoJSON geometries.  A polygon is named by how it was made.
MapboxGeometry(type) ==
    [type |-> type, origin |-> "mapbox", center |-> Pt(0, 0), radius |-> 0]
ST_Buffer(pt, radius) ==
    [type |-> "Polygon", origin |-> "ST_Buffer", center |-> pt, radius |-> radius]
SqlNullGeometry == [type |-> "NULL", origin |-> "", center |-> Pt(0, 0), radius |-> 0]
\* a polygon the routing service may answer with whose ring encloses no area
CollapsedGeometry == [MapboxGeometry("Polygon") EXCEPT !.origin = "mapbox_collapsed"]
ST_Multi(g) == [g EXCEPT !.type = "MultiPolygon"]
ST_Centroid(g) == [g.center EXCEPT !.eps = 1]

\* rows of ts_overture_poi_3: category (SqlNull when the column is NULL), the
\* point, the parcel centres whose 1000 m buffer it intersects, and whether it
\* lies inside the polygon the stubbed routing service returns
SqlNull == "<NULL>"
PoiRow(cat, id, near, inIso) ==
    [category |-> cat, geom |-> Pt(id, id), near |-> near, inIso |-> inIso]

PoiSmall ==
    << PoiRow("Retail", 1, {P1}, TRUE),
       PoiRow("Education", 2, {P1, P2}, TRUE),
       PoiRow("Retail", 3, {P1}, FALSE),
       PoiRow("Accommodation", 4, {P2}, TRUE) >>

\* a dense neighbourhood: PoiLarge rows over 16 labels, a quarter of them
\* Retail; the first 40 rows are also within 1000 m of the second parcel
PoiLabel(i) ==
    <<"Retail", "Education", "Health And Medical", "Eat And Drink", "Retail",
      "Business", "Travel", "Arts", "Retail", "Automotive", "Accommodation",
      "Religious", "Retail", "Finance", "Beauty", "Sports", "Retail",
      "Government", "Pets", "Real Estate">>[(i % 20) + 1]
PoiDense ==
    [i \in 1..PoiLarge |->
        PoiRow(PoiLabel(i), i, IF i <= 40 THEN {P1, P2} ELSE {P1}, TRUE)]

\* a table whose category column holds NULLs and labels that are digit strings
PoiOdd ==
    << PoiRow("Retail", 1, {P1}, TRUE),
       PoiRow("10", 2, {P1, P2}, TRUE),
       PoiRow(SqlNull, 3, {P1}, TRUE),
       PoiRow("Education", 4, {P1, P2}, TRUE),
       PoiRow("7", 5, {P1}, TRUE),
       PoiRow("Retail", 6, {P1}, TRUE),
       PoiRow(SqlNull, 7, {P1}, FALSE),
       PoiRow("null", 8, {P1}, FALSE) >>

\* a table whose labels differ from the supportive ones in case or by a suffix
PoiCase ==
    << PoiRow("Retail", 1, {P1}, TRUE),
       PoiRow("retail", 2, {P1}, TRUE),
       PoiRow("Health and Medical", 3, {P1}, TRUE),
       PoiRow("Education", 4, {P1}, TRUE),
       PoiRow("Education", 5, {P1}, TRUE),
       PoiRow("Education", 6, {P1}, TRUE),
       PoiRow("Accommodation", 7, {P1}, TRUE),
       PoiRow("Retail Store", 8, {P1}, TRUE),
       PoiRow("Health And Medical", 9, {P1}, TRUE),
       PoiRow("Retail", 10, {P1}, TRUE),
       PoiRow("Retail", 11, {P1}, TRUE) >>

\* more POIs in reach than the 500 an earlier revision of the query stopped at
PoiBeyond500 == [i \in 1..(PoiLarge + 381) |-> PoiRow(PoiLabel(i), i, {P1}, TRUE)]

PoiTables == {<< >>, PoiSmall, PoiDense}

\* a facility table: absent from the schema, or a set of features, each at a
\* geodesic distance (metres) from every parcel centre
FacilityKinds == {"ts_policestations", "ts_hospitals", "ts_main_roads"}
Feature(id, d1, d2) == [geom |-> Pt(id, id), dist |-> [p \in {P1, P2} |-> IF p = P1 THEN d1 ELSE d2]]
FacilityFeatures(t) ==
    CASE t = "ts_policestations" -> {Feature(11, 2000, 12000), Feature(12, 2600, 9240)}
      [] t = "ts_hospitals"      -> {Feature(21, 3000, 10500)}
      [] t = "ts_main_roads"     -> {Feature(31, 500, 0)}
FacilityTables(t) ==
    { [exists |-> FALSE, rows |-> {}],
      [exists |-> TRUE, rows |-> {}],
      [exists |-> TRUE, rows |-> FacilityFeatures(t)] }

\* rows of ts_tanks: the geodesic area each tank shares with a reachability
\* polygon; every reachability polygon of the model has area IsoArea, but for
\* the collapsed one
IsoArea == 10000
ST_Area(geom) == IF geom.origin = "mapbox_collapsed" THEN 0 ELSE IsoArea
TankTables ==
    { {},
      {[gid |-> 1, shared |-> 900]},
      {[gid |-> 1, shared |-> 901]},
      {[gid |-> 1, shared |-> 8000], [gid |-> 2, shared |-> 8000]} }
\* one tank at every overlap from lying elsewhere to covering the polygon, and
\* three tanks of which two lie on one another
TankSweep ==
    { {[gid |-> 1, shared |-> a]} :
          a \in {0, 1, 450, 850, 899, 949, 950, 951, 1000, 2500, 5049, 5050,
                 9949, 9950, 10000} }
    \cup { {[gid |-> 1, shared |-> 300], [gid |-> 2, shared |-> 300],
            [gid |-> 3, shared |-> 301]},
           {[gid |-> 1, shared |-> 10000], [gid |-> 2, shared |-> 10000]} }

\* ------------------------------------------------------ routing service
\* what the stubbed isochrone endpoint does with a request
Feat(type) == [geometry |-> Some(MapboxGeometry(type))]
RoutingStubs ==
    { [outcome |-> "network_error", ok |-> FALSE, json |-> Null],
      [outcome |-> "http_error", ok |-> FALSE, json |-> Null],
      [outcome |-> "unparsable", ok |-> TRUE, json |-> Null],
      [outcome |-> "json", ok |-> TRUE, json |-> Some([features |-> Null])],
      [outcome |-> "json", ok |-> TRUE, json |-> Some([features |-> Some(<< >>)])],
      [outcome |-> "json", ok |-> TRUE,
       json |-> Some([features |-> Some(<<[geometry |-> Null]>>)])],
      [outcome |-> "json", ok |-> TRUE,
       json |-> Some([features |-> Some(<<Feat("Point"), Feat("Polygon")>>)])],
      [outcome |-> "json", ok |-> TRUE,
       json |-> Some([features |-> Some(<<Feat("Polygon")>>)])],
      [outcome |-> "json", ok |-> TRUE,
       json |-> Some([features |-> Some(<<[geometry |-> Some(CollapsedGeometry)]>>)])],
      [outcome |-> "json", ok |-> TRUE,
       json |-> Some([features |-> Some(<<Feat("MultiPolygon"), Feat("Point")>>)])] }

\* ------------------------------------------------------------ arithmetic
Min(a, b) == IF a < b THEN a ELSE b
Max(a, b) == IF a > b THEN a ELSE b
\* n points in score units (1/3000 point)
Points(n) == n * 3000
\* Math.round of a score: the nearest integer, halves up
MathRound(x) == (x + 1500) \div 3000
\* x.toFixed(1) read back with parseFloat, in tenths of a point
ToFixed1(x) == (x + 150) \div 300
\* ((n / d) * 100).toFixed(2) read back with parseFloat, in hundredths; a
\* division by zero gives no finite percent (Infinity or NaN), written -1
PercentOf(n, d) == IF d = 0 THEN -1 ELSE (2 * 10000 * n + d) \div (2 * d)

RECURSIVE SumSeq(_)
SumSeq(s) == IF s = << >> THEN 0 ELSE Head(s) + SumSeq(Tail(s))

\* ----------------------------------------------------- Step 4: POI data
\* the property key a category value becomes: String(null) is "null"
PropertyKey(category) == IF category = SqlNull THEN "null" ELSE category

\* the labels of the model that are canonical array indices, with their value
ArrayIndex(key) == CASE key = "7" -> 7 [] key = "10" -> 10 [] OTHER -> -1

IndexOfKey(map, key) ==
    IF \E i \in 1..Len(map) : map[i].key = key
    THEN CHOOSE i \in 1..Len(map) : map[i].key = key
    ELSE 0

\* where a new own property lands in Object.keys order: integer keys first in
\* ascending order, then the other keys in insertion order
InsertAt(map, key) ==
    IF ArrayIndex(key) < 0 THEN Len(map) + 1
    ELSE 1 + Cardinality({i \in 1..Len(map) :
                 ArrayIndex(map[i].key) >= 0 /\ ArrayIndex(map[i].key) < ArrayIndex(key)})

\* (the array created anew for every POI)
PushPoiFresh(map, poi) ==
    LET key == PropertyKey(poi.category)
        i == IndexOfKey(map, key)
        at == InsertAt(map, key)
    IN IF i > 0
       THEN [map EXCEPT ![i].locations = <<poi.geom>>]
       ELSE SubSeq(map, 1, at - 1) \o <<[key |-> key, locations |-> <<poi.geom>>]>>
            \o SubSeq(map, at, Len(map))

\* categoryMap[poi.category].push({lat, lon}), creating the array first
PushPoi(map, poi) ==
    LET key == PropertyKey(poi.category)
        i == IndexOfKey(map, key)
        at == InsertAt(map, key)
    IN IF i > 0
       THEN [map EXCEPT ![i].locations = Append(@, poi.geom)]
       ELSE SubSeq(map, 1, at - 1) \o <<[key |-> key, locations |-> <<poi.geom>>]>>
            \o SubSeq(map, at, Len(map))

\* poiResult.rows.forEach, left to right (split in halves to keep the
\* evaluation shallow)
RECURSIVE CategoryMapOf(_, _)
CategoryMapOf(rows, map) ==
    IF Len(rows) = 0 THEN map
    ELSE IF Len(rows) = 1 THEN PushPoi(map, rows[1])
    ELSE LET half == Len(rows) \div 2
             left == CategoryMapOf(SubSeq(rows, 1, half), map)
         IN IF Len(left) > 0 THEN CategoryMapOf(SubSeq(rows, half + 1, Len(rows)), left)
            ELSE left

\* Array.prototype.sort((a, b) => b.count - a.count): stable insertion
RECURSIVE SortByCount(_)
SortByCount(items) ==
    IF items = << >> THEN << >>
    ELSE LET last == items[Len(items)]
             init == SortByCount(SubSeq(items, 1, Len(items) - 1))
             k == Cardinality({i \in 1..Len(init) : init[i].count >= last.count})
         IN SubSeq(init, 1, k) \o <<last>> \o SubSeq(init, k + 1, Len(init))

poiBreakdown(categoryMap, totalPois) ==
    SortByCount([i \in 1..Len(categoryMap) |->
        [category |-> categoryMap[i].key,
         count |-> Len(categoryMap[i].locations),
         percent |-> PercentOf(Len(categoryMap[i].locations), totalPois),
         locations |-> categoryMap[i].locations]])

\* (one entry for each of SUPPORTIVE_CATEGORIES, found or not)
supportiveBusinessesEveryKind(breakdown) ==
    LET kinds == <<"Retail", "Health And Medical", "Accommodation">>
        CountOf(c) == SumSeq([i \in 1..Len(breakdown) |->
                         IF breakdown[i].category = c THEN breakdown[i].count ELSE 0])
        supportiveTotal == CountOf(kinds[1]) + CountOf(kinds[2]) + CountOf(kinds[3])
    IN [i \in 1..3 |->
           [category |-> kinds[i],
            count |-> CountOf(kinds[i]),
            percent |-> PercentOf(CountOf(kinds[i]), supportiveTotal)]]

\* (each count as a percentage of all POIs)
supportiveBusinessesOfAll(breakdown) ==
    LET kept == SelectSeq(breakdown, LAMBDA item : item.category \in SUPPORTIVE_CATEGORIES)
        total == SumSeq([i \in 1..Len(breakdown) |-> breakdown[i].count])
    IN [i \in 1..Len(kept) |->
           [category |-> kept[i].category,
            count |-> kept[i].count,
            percent |-> PercentOf(kept[i].count, total)]]

\* poiBreakdown filtered on SUPPORTIVE_CATEGORIES, each count as a percentage
\* of the subset's total
supportiveBusinesses(breakdown) ==
    LET kept == SelectSeq(breakdown, LAMBDA item : item.category \in SUPPORTIVE_CATEGORIES)
        supportiveTotal == SumSeq([i \in 1..Len(kept) |-> kept[i].count])
    IN [i \in 1..Len(kept) |->
           [category |-> kept[i].category,
            count |-> kept[i].count,
            percent |-> PercentOf(kept[i].count, supportiveTotal)]]

\* ------------------------------------------------- Step 6: FTL percentage
\* (the threshold taken as rawPercentage >= 9)
ftlPercentageFrom9(rows) ==
    IF Len(rows) > 0 /\ rows[1].isochrone_area # Null /\ rows[1].isochrone_area[1] > 0
    THEN LET num == rows[1].total_intersection * 100
             den == rows[1].isochrone_area[1]
         IN IF num >= 9 * den THEN (2 * num + den) \div (2 * den) ELSE 0
    ELSE 0

\* rawPercentage > 9 ? Math.round(rawPercentage) : 0, and 0 without an area
ftlPercentage(rows) ==
    IF Len(rows) > 0 /\ rows[1].isochrone_area # Null /\ rows[1].isochrone_area[1] > 0
    THEN LET num == rows[1].total_intersection * 100
             den == rows[1].isochrone_area[1]
         IN IF num > 9 * den THEN (2 * num + den) \div (2 * den) ELSE 0
    ELSE 0

\* ---------------------------------------------------- Step 7: the score
poiScore(totalPois) == Min(Points(30), totalPois * 900)

\* (the component without Math.max(0, ...))
FacilityPointsNoFloor(data, capacity) ==
    IF data = Null THEN 0 ELSE Points(capacity) - 3 * data[1].distance_m

\* if (data) score += Math.max(0, capacity - data.distance_m / 1000)
FacilityPoints(data, capacity) ==
    IF data = Null THEN 0 ELSE Max(0, Points(capacity) - 3 * data[1].distance_m)

amenityScore(policeData, hospitalData, roadData) ==
    Min(Points(25), FacilityPoints(policeData, 10) + FacilityPoints(hospitalData, 10)
                    + FacilityPoints(roadData, 5))

\* (a point lost for every 10 % instead of every 5 %)
ftlScoreTenth(pct) == IF pct = 0 THEN Points(20) ELSE Max(0, Points(20) - 300 * pct)
ftlScoreNoFloor(pct) == IF pct = 0 THEN Points(20) ELSE Points(20) - 600 * pct
ftlScore(pct) == IF pct = 0 THEN Points(20) ELSE Max(0, Points(20) - 600 * pct)

\* (the ramp saturating at 15 supportive POIs instead of 20)
businessScorePer15(supportiveTotal) == Min(Points(15), supportiveTotal * 3000)
\* Math.min(15, (supportiveTotal / 20) * 15)
businessScore(supportiveTotal) == Min(Points(15), supportiveTotal * 2250)

accessibilityScore(categoryCount) == Min(Points(10), categoryCount * 2000)

\* (the composite taken from the sub-scores as reported, at one decimal)
developmentScoreOfReported(poi, amenity, ftl, business, accessibility) ==
    (ToFixed1(poi) + ToFixed1(amenity) + ToFixed1(ftl) + ToFixed1(business)
       + ToFixed1(accessibility) + 5) \div 10

\* Math.round of the sum of the five sub-scores, none of them rounded
developmentScore(poi, amenity, ftl, business, accessibility) ==
    MathRound(poi + amenity + ftl + business + accessibility)

scoreBreakdown(poi, amenity, ftl, business, accessibility) ==
    [poi_score |-> Min(300, ToFixed1(poi)),
     amenity_score |-> Min(250, ToFixed1(amenity)),
     ftl_score |-> Min(200, ToFixed1(ftl)),
     business_score |-> Min(150, ToFixed1(business)),
     accessibility_score |-> Min(100, ToFixed1(accessibility))]

\* ------------------------------------------------------------------ state
VARIABLES
    MAPBOX_TOKEN,                  \* process.env.MAPBOX_TOKEN is set
    routing,                       \* the stubbed routing service
    ts_warangal_survey_centroids,  \* spatial store, read by the analysis
    ts_overture_poi_3,
    facilities,                    \* ts_policestations, ts_hospitals, ts_main_roads
    ts_tanks,
    ts_warangal_survey,            \* written by SurveyResult.create
    gid_seq,                       \* the serial behind ts_warangal_survey.gid
    analysisStore,                 \* the Map of AnalysisStore
    pc,                            \* the await the request is suspended at
    req,                           \* req.body
    an,                            \* the locals of analyzeLocation
    analysisResult,                \* what analyzeLocation returned
    row,                           \* the row SurveyResult.create inserted
    res,                           \* the HTTP response
    prevRes,                       \* the answer to the request before, if it was a success
    issued,                        \* the requests sent out for this request
    runs,                          \* requests started
    params,                        \* the polygon each spatial query was sent with
    other,                         \* a second request, suspended at an await
    variant,                       \* the file the loaded SurveyResult class is from
    readRes,                       \* the answer to the latest read of a stored result
    calls,                         \* the calls made on AnalysisStore, oldest first
    paymentStore,                  \* the Map of the Payment model
    orders,                        \* the orders the payment gateway holds
    clock                          \* Date.now()

store == <<MAPBOX_TOKEN, routing, ts_warangal_survey_centroids, ts_overture_poi_3,
           facilities, ts_tanks>>
vars == <<MAPBOX_TOKEN, routing, ts_warangal_survey_centroids, ts_overture_poi_3,
          facilities, ts_tanks, ts_warangal_survey, gid_seq, analysisStore,
          pc, req, an, analysisResult, row, res, prevRes, issued, runs, params,
          other, variant, readRes, calls, paymentStore, orders, clock>>

\* what a request for an analysis has no part in
aside == <<other, variant, readRes, calls, paymentStore, orders, clock>>

NoResponse == [status |-> 0]
NoParams == [poi |-> Null, ftl |-> Null, tanks |-> Null]
NoResult == [pending |-> TRUE]

\* the locals of analyzeLocation as their declarations leave them
Locals ==
    [latitude |-> Null, longitude |-> Null, isoGeometry |-> Null,
     usedFallback |-> FALSE, totalPois |-> 0, categoryMap |-> << >>,
     poiBreakdown |-> << >>, supportiveBusinesses |-> << >>,
     policeData |-> Null, hospitalData |-> Null, roadData |-> Null,
     ftlPercentage |-> 0, tanksGeoJSON |-> Null]

\* every call of analyzeLocation has its own locals
ModuleScopeLocals(old) == [Locals EXCEPT !.categoryMap = old.categoryMap]
NewLocals(old) == Locals

Populated == [t \in FacilityKinds |-> [exists |-> TRUE, rows |-> FacilityFeatures(t)]]

\* the parcels as ts_warangal_survey holds them before any analysis is stored
ParcelRows ==
    { [gid |-> 1, surveyno |-> "101", village |-> "Hanamkonda",
       geom |-> ST_Multi(ST_Buffer(P1, 60))],
      [gid |-> 2, surveyno |-> "102", village |-> "Hanamkonda",
       geom |-> ST_Multi(ST_Buffer(P2, 60))] }

\* The worlds an analysis runs in: a deployment without the credential; every
\* routing behaviour over a populated store; the tables of odd labels and of
\* more than 500 POIs; every
\* hazard overlap under a routing service that answers with a polygon; every
\* store content under a routing service that answers with a polygon or with
\* an error status.
Worlds ==
    LET World(tok, r, poi, fac, tanks) ==
            [token |-> tok, routing |-> r, poi |-> poi, fac |-> fac, tanks |-> tanks]
        Answers == {r \in RoutingStubs : r.outcome = "http_error"
                        \/ (r.json # Null /\ r.json[1].features = Some(<<Feat("Polygon")>>))}
        Polygons == {r \in RoutingStubs : r.json # Null
                        /\ r.json[1].features \in
                               {Some(<<Feat("Polygon")>>),
                                Some(<<[geometry |-> Some(CollapsedGeometry)]>>)}}
    IN {World(FALSE, r, PoiSmall, Populated, {}) : r \in Answers}
       \cup {World(TRUE, r, PoiSmall, Populated, {}) : r \in RoutingStubs}
       \cup {World(TRUE, r, poi, Populated, {}) : r \in Answers, poi \in {PoiOdd, PoiCase}}
       \cup {World(TRUE, r, PoiBeyond500, Populated, {}) : r \in Polygons}
       \cup {World(TRUE, r, PoiSmall, Populated, tanks) :
               r \in Polygons, tanks \in TankSweep}
       \cup {World(TRUE, r, poi, fac, tanks) :
               r \in Answers, poi \in PoiTables,
               fac \in {f \in [FacilityKinds -> UNION {FacilityTables(t) : t \in FacilityKinds}] :
                            \A t \in FacilityKinds : f[t] \in FacilityTables(t)},
               tanks \in TankTables}

\* one request at a time
OneRequest == other = Null

\* the controllers import SurveyResult from models/SurveyResult.js
NoReads == variant = "models/SurveyResult.js" /\ readRes = NoResponse

NoStoreCalls == calls = << >>

NoPayments == paymentStore = << >> /\ orders = {} /\ clock = 0

Init ==
    /\ \E w \in Worlds :
        /\ MAPBOX_TOKEN = w.token
        /\ routing = w.routing
        /\ ts_overture_poi_3 = w.poi
        /\ facilities = w.fac
        /\ ts_tanks = w.tanks
    /\ ts_warangal_survey_centroids = CentroidRows
    /\ ts_warangal_survey = ParcelRows
    /\ gid_seq = 3
    /\ analysisStore = << >>
    /\ pc = "idle"
    /\ req = [village |-> "", surveyNumber |-> ""]
    /\ an = Locals
    /\ analysisResult = NoResult
    /\ row = Null
    /\ res = NoResponse
    /\ prevRes = NoResponse
    /\ issued = << >>
    /\ runs = 0
    /\ params = NoParams
    /\ OneRequest
    /\ NoReads
    /\ NoStoreCalls
    /\ NoPayments

\* ------------------------------------------------------ the SQL queries
\* Step 1: the centroid rows of (village, surveyno)
CentroidMatches(village, surveyNumber) ==
    {r \in ts_warangal_survey_centroids : r.village = village /\ r.surveyno = surveyNumber}

\* Step 3: ST_Intersects(p.geom, iso.geom)
ST_Intersects(poi, geom) ==
    IF geom.origin = "mapbox" THEN poi.inIso ELSE geom.center \in poi.near

\* (the query ending in LIMIT 500)
PoiRowsLimit500(geom) ==
    LET all == SelectSeq(ts_overture_poi_3, LAMBDA p : ST_Intersects(p, geom))
    IN SubSeq(all, 1, Min(500, Len(all)))

\* the Step 3 query: every POI intersecting the polygon, in table order
PoiRows(geom) == SelectSeq(ts_overture_poi_3, LAMBDA p : ST_Intersects(p, geom))

\* Step 5: the nearest feature of a table to the parcel (ORDER BY <-> LIMIT 1)
NearestRows(tableName, village, surveyNumber) ==
    LET survey == CentroidMatches(village, surveyNumber)
        feats == facilities[tableName].rows
    IN IF survey = {} \/ feats = {} THEN << >>
       ELSE LET s == CHOOSE r \in survey : TRUE
                f == CHOOSE g \in feats : \A h \in feats : g.dist[s.geom] <= h.dist[s.geom]
            IN <<[dist_m |-> f.dist[s.geom], geom |-> f.geom]>>

\* getNearestFeature's value for the rows of its query
NearestData(rows) ==
    IF Len(rows) = 0 THEN Null
    ELSE Some([distance_m |-> rows[1].dist_m, geom |-> rows[1].geom])

\* Step 6: one aggregate row over the tanks that intersect the polygon
RECURSIVE SumShared(_)
SumShared(tanks) ==
    IF tanks = {} THEN 0
    ELSE LET t == CHOOSE u \in tanks : TRUE IN t.shared + SumShared(tanks \ {t})

FtlRows(geom) ==
    LET hit == {t \in ts_tanks : t.shared > 0}
        intersections == {[gid |-> t.gid, shared |-> Min(t.shared, ST_Area(geom))] : t \in hit}
    IN <<[total_intersection |-> SumShared(intersections),
          isochrone_area |-> IF hit = {} THEN Null ELSE Some(ST_Area(geom))]>>

\* Step 6: json_build_object over json_agg of the intersecting tanks
TanksRows(geom) ==
    LET hit == {t \in ts_tanks : t.shared > 0}
    IN <<[geojson |-> Some([type |-> "FeatureCollection",
                            features |-> IF hit = {} THEN Null
                                         ELSE Some({t.gid : t \in hit})])]>>

\* the message of the error a query rejects with when the store is unavailable
QueryError(name) == "store unavailable: " \o name

\* the message PostgreSQL rejects a query on a table that does not exist with
MissingRelation(tableName) == "relation \"" \o tableName \o "\" does not exist"

\* ------------------------------------------------- analyzeLocation, Step 2
\* (the try block without the check of the geometry type)
IsochroneAttemptAnyType(stub) ==
    IF stub.outcome = "network_error"
    THEN [threw |-> TRUE, assigned |-> Null, message |-> "fetch failed"]
    ELSE IF ~stub.ok
    THEN [threw |-> TRUE, assigned |-> Null, message |-> "Mapbox API error"]
    ELSE IF stub.json = Null
    THEN [threw |-> TRUE, assigned |-> Null, message |-> "Unexpected token in JSON"]
    ELSE LET isoData == stub.json[1] IN
         IF isoData.features # Null /\ Len(isoData.features[1]) > 0
         THEN LET geometry == isoData.features[1][1].geometry IN
              IF geometry = Null
              THEN [threw |-> TRUE, assigned |-> Null,
                    message |-> "Cannot read properties of undefined (reading 'type')"]
              ELSE [threw |-> FALSE, assigned |-> geometry, message |-> ""]
         ELSE [threw |-> TRUE, assigned |-> Null, message |-> "No isochrone data returned"]

\* what the try block makes of the settled fetch: the geometry it assigned to
\* isoGeometry (if it got that far) and whether it threw
IsochroneAttempt(stub) ==
    IF stub.outcome = "network_error"
    THEN [threw |-> TRUE, assigned |-> Null, message |-> "fetch failed"]
    ELSE IF ~stub.ok
    THEN [threw |-> TRUE, assigned |-> Null, message |-> "Mapbox API error"]
    ELSE IF stub.json = Null
    THEN [threw |-> TRUE, assigned |-> Null, message |-> "Unexpected token in JSON"]
    ELSE LET isoData == stub.json[1] IN
         IF isoData.features # Null /\ Len(isoData.features[1]) > 0
         THEN LET geometry == isoData.features[1][1].geometry IN
              IF geometry = Null
              THEN [threw |-> TRUE, assigned |-> Null,
                    message |-> "Cannot read properties of undefined (reading 'type')"]
              ELSE IF geometry[1].type \in {"Polygon", "MultiPolygon"}
              THEN [threw |-> FALSE, assigned |-> geometry, message |-> ""]
              ELSE [threw |-> TRUE, assigned |-> geometry,
                    message |-> "Unexpected geometry type: " \o geometry[1].type]
         ELSE [threw |-> TRUE, assigned |-> Null, message |-> "No isochrone data returned"]

\* the errors of Step 2 the inner try/catch catches: the fetch, the status
\* check and the parsing are all inside the try block
CatchesParsingOnly(stub) == stub.outcome # "network_error"
InnerCatchCovers(stub) == TRUE

\* the request the inner catch block sends next
RetryIsochrone == "isochrone"
CatchIsochrone == "buffer"

\* if (!MAPBOX_TOKEN) throw
TokenIgnored(token) == FALSE
TokenMissing(token) == ~token

\* the outer catch block: error.message || 'GIS analysis failed'
CaughtGeneric(message) == [error |-> "GIS analysis failed"]
CaughtError(message) == [error |-> IF message = "" THEN "GIS analysis failed" ELSE message]

\* analyzeSurvey: !analysisResult || analysisResult.error
ErrorUnchecked(result) == FALSE
AnalysisFailed(result) == "error" \in DOMAIN result

\* ------------------------------------------------- analyzeLocation, Step 8
Km3(data) == IF data = Null THEN Null ELSE Some(data[1].distance_m)

CompleteResult(l, village, surveyNumber, now) ==
    LET poi == poiScore(l.totalPois)
        amenity == amenityScore(l.policeData, l.hospitalData, l.roadData)
        ftl == ftlScore(l.ftlPercentage)
        supportiveTotal ==
            SumSeq([i \in 1..Len(l.supportiveBusinesses) |-> l.supportiveBusinesses[i].count])
        business == businessScore(supportiveTotal)
        accessibility == accessibilityScore(Len(l.categoryMap))
    IN [village |-> village,
        survey_number |-> surveyNumber,
        latitude |-> l.latitude[1],
        longitude |-> l.longitude[1],
        total_pois |-> l.totalPois,
        poi_breakdown |-> l.poiBreakdown,
        distance_to_police |-> Km3(l.policeData),
        distance_to_hospital |-> Km3(l.hospitalData),
        distance_to_main_road |-> Km3(l.roadData),
        supportive_businesses |-> l.supportiveBusinesses,
        ftl_zone_percentage |-> l.ftlPercentage,
        development_score |-> developmentScore(poi, amenity, ftl, business, accessibility),
        score_breakdown |-> scoreBreakdown(poi, amenity, ftl, business, accessibility),
        used_fallback |-> l.usedFallback,
        analysis_date |-> now,
        map_data |-> [isochrone_geometry |-> l.isoGeometry[1],
                      poi_locations |-> l.poiBreakdown,
                      nearest_police |-> l.policeData,
                      nearest_hospital |-> l.hospitalData,
                      nearest_road |-> l.roadData,
                      tanks_geometry |-> l.tanksGeoJSON]]

\* --------------------------------------------------- SurveyResult.create
\* the fields create keeps of the analysis, stamped again
\* (the class in controllers/paymentController.js also keeps used_fallback)
AnalysisData(data, now) ==
    LET kept == [total_pois |-> data.total_pois,
                 poi_breakdown |-> data.poi_breakdown,
                 supportive_businesses |-> data.supportive_businesses,
                 distance_to_police |-> data.distance_to_police,
                 distance_to_hospital |-> data.distance_to_hospital,
                 distance_to_main_road |-> data.distance_to_main_road,
                 development_score |-> data.development_score,
                 score_breakdown |-> data.score_breakdown,
                 ftl_zone_percentage |-> data.ftl_zone_percentage,
                 map_data |-> data.map_data,
                 analysis_date |-> now]
    IN IF variant = "controllers/paymentController.js"
       THEN [used_fallback |-> data.used_fallback] @@ kept
       ELSE kept

\* an id as a caller passes it: a number (row.gid) or a string
Num(n) == [number |-> n]
Str(text) == [string |-> text]

\* (the id taken for the key as it was given, a number apart from its digits)
surveyIdAsGiven(surveyId) ==
    IF "string" \in DOMAIN surveyId THEN surveyId.string
    ELSE "#" \o ToString(surveyId.number)
\* surveyId.toString()
surveyIdToString(surveyId) ==
    IF "string" \in DOMAIN surveyId THEN surveyId.string ELSE ToString(surveyId.number)

\* AnalysisStore.set: the analysis and stored_at under surveyId.toString()
AnalysisStoreSet(map, surveyId, analysisData, now) ==
    LET key == surveyIdToString(surveyId)
        value == [data |-> analysisData, stored_at |-> now]
    IN [k \in DOMAIN map \cup {key} |-> IF k = key THEN value ELSE map[k]]

\* AnalysisStore.get: analysisStore.get(surveyId.toString()) || null
AnalysisStoreGet(map, surveyId) ==
    IF surveyIdToString(surveyId) \in DOMAIN map
    THEN Some(map[surveyIdToString(surveyId)])
    ELSE Null

AnalysisStoreHas(map, surveyId) == surveyIdToString(surveyId) \in DOMAIN map

AnalysisStoreDelete(map, surveyId) ==
    [k \in DOMAIN map \ {surveyIdToString(surveyId)} |-> map[k]]

\* Array.from(analysisStore.keys()), as a set
AnalysisStoreGetAllIds(map) == DOMAIN map

SavedResult(r, center, analysisData) ==
    [id |-> ToString(r.gid), gid |-> r.gid, village |-> r.village,
     survey_number |-> r.surveyno,
     latitude |-> [deg |-> center.lat, eps |-> center.eps],
     longitude |-> [deg |-> center.lon, eps |-> center.eps],
     analysis |-> analysisData]

\* ---------------------------------------------------------------- actions
Send(name) == issued' = Append(issued, name)

\* (the overlap query sent with the fallback buffer whatever the polygon)
ParamOfBuffer(l) == Some(ST_Buffer(Pt(l.longitude[1], l.latitude[1]), FALLBACK_WALK_BUFFER_M))
\* [JSON.stringify(isoGeometry)], the parameter of the three spatial queries
ParamOfPoiQuery(l) == l.isoGeometry
ParamOfFtlQuery(l) == l.isoGeometry
ParamOfTanksQuery(l) == l.isoGeometry

\* (the engine keeping its result under the survey number)
ResultCached(map, result) == AnalysisStoreSet(map, Str(result.survey_number), result, 0)
\* analyzeLocation hands its result to the caller and keeps nothing of it
ResultReturned(map, result) == map

\* the parameter goes out with the query
Bind(l) ==
    params' = CASE pc' = "poi" -> [params EXCEPT !.poi = ParamOfPoiQuery(l)]
                [] pc' = "ftl" -> [params EXCEPT !.ftl = ParamOfFtlQuery(l)]
                [] pc' = "tanks" -> [params EXCEPT !.tanks = ParamOfTanksQuery(l)]
                [] OTHER -> params

\* analyzeLocation returns {error}; analyzeSurvey answers 500 and stores nothing
Abort(message) ==
    /\ analysisResult' = CaughtError(message)
    /\ IF AnalysisFailed(CaughtError(message))
       THEN /\ res' = [status |-> 500, data |-> [error |-> CaughtError(message).error]]
            /\ pc' = "idle"
            /\ UNCHANGED issued
       ELSE /\ res' = res
            /\ pc' = "insert"
            /\ Send("insert")
    /\ UNCHANGED <<row, ts_warangal_survey, gid_seq, analysisStore>>

\* POST /analyze-survey up to the first await of analyzeLocation
AnalyzeSurvey(village, surveyNumber) ==
    /\ pc = "idle"
    /\ runs < MaxRuns
    /\ runs' = runs + 1
    /\ req' = [village |-> village, surveyNumber |-> surveyNumber]
    /\ prevRes' = IF res.status = 200 THEN res ELSE NoResponse
    /\ analysisResult' = NoResult
    /\ row' = Null
    /\ params' = NoParams
    /\ IF village = "" \/ surveyNumber = ""
       THEN /\ res' = [status |-> 400,
                       data |-> [error |-> "Village and survey number are required"]]
            /\ pc' = "idle"
            /\ issued' = << >>
            /\ an' = an
       ELSE /\ res' = NoResponse
            /\ pc' = "centroid"
            /\ issued' = <<"centroid">>
            /\ an' = NewLocals(an)
    /\ UNCHANGED <<aside, store, ts_warangal_survey, gid_seq, analysisStore>>

\* Step 1 resolves; the credential check; the isochrone request goes out
Step1_Centroid ==
    /\ pc = "centroid"
    /\ \/ /\ Abort(QueryError("centroid"))
          /\ an' = an
       \/ /\ CentroidMatches(req.village, req.surveyNumber) = {}
          /\ Abort("No matching survey centroid found. Check village and survey number.")
          /\ an' = an
       \/ \E survey \in CentroidMatches(req.village, req.surveyNumber) :
            /\ an' = [an EXCEPT !.latitude = Some(survey.geom.lat),
                                !.longitude = Some(survey.geom.lon),
                                !.isoGeometry = Null,
                                !.usedFallback = FALSE]
            /\ IF TokenMissing(MAPBOX_TOKEN)
               THEN Abort("Mapbox token not configured. Please set MAPBOX_TOKEN in environment variables.")
               ELSE /\ Send("isochrone")
                    /\ pc' = "isochrone"
                    /\ UNCHANGED <<analysisResult, res, row, ts_warangal_survey, gid_seq,
                                   analysisStore>>
    /\ Bind(an')
    /\ UNCHANGED <<aside, store, req, prevRes, runs>>

\* the fetch settles: the polygon is taken, or the inner catch falls back
Step2_Isochrone ==
    /\ pc = "isochrone"
    /\ LET try == IsochroneAttempt(routing) IN
       IF try.threw /\ InnerCatchCovers(routing)
       THEN /\ an' = [an EXCEPT !.isoGeometry = try.assigned, !.usedFallback = TRUE]
            /\ Send(CatchIsochrone)
            /\ pc' = CatchIsochrone
            /\ UNCHANGED <<analysisResult, res, row, ts_warangal_survey, gid_seq,
                           analysisStore>>
       ELSE IF try.threw
       THEN /\ an' = an
            /\ Abort(try.message)
       ELSE /\ an' = [an EXCEPT !.isoGeometry = try.assigned]
            /\ Send("poi")
            /\ pc' = "poi"
            /\ UNCHANGED <<analysisResult, res, row, ts_warangal_survey, gid_seq,
                           analysisStore>>
    /\ Bind(an')
    /\ UNCHANGED <<aside, store, req, prevRes, runs>>

\* the fallback buffer query resolves
Step2_Buffer ==
    /\ pc = "buffer"
    /\ \/ /\ Abort(QueryError("buffer"))
          /\ an' = an
       \/ \E survey \in CentroidMatches(req.village, req.surveyNumber) :
            /\ an' = [an EXCEPT !.isoGeometry =
                                   Some(ST_Buffer(survey.geom, FALLBACK_WALK_BUFFER_M))]
            /\ Send("poi")
            /\ pc' = "poi"
            /\ UNCHANGED <<analysisResult, res, row, ts_warangal_survey, gid_seq,
                           analysisStore>>
    /\ Bind(an')
    /\ UNCHANGED <<aside, store, req, prevRes, runs>>

\* Steps 3 and 4: the POI query resolves and is grouped
Step3_Poi ==
    /\ pc = "poi"
    /\ \/ /\ Abort(QueryError("poi"))
          /\ an' = an
       \/ LET rows == PoiRows(params.poi[1])
              categoryMap == CategoryMapOf(rows, an.categoryMap)
              breakdown == poiBreakdown(categoryMap, Len(rows))
          IN /\ an' = [an EXCEPT !.categoryMap = categoryMap,
                                 !.totalPois = Len(rows),
                                 !.poiBreakdown = breakdown,
                                 !.supportiveBusinesses = supportiveBusinesses(breakdown)]
             /\ Send("ts_policestations")
             /\ pc' = "ts_policestations"
             /\ UNCHANGED <<analysisResult, res, row, ts_warangal_survey, gid_seq,
                            analysisStore>>
    /\ Bind(an')
    /\ UNCHANGED <<aside, store, req, prevRes, runs>>

\* the order of the three getNearestFeature calls, then Step 6
AfterNearest(tableName) ==
    CASE tableName = "ts_policestations" -> "ts_hospitals"
      [] tableName = "ts_hospitals" -> "ts_main_roads"
      [] tableName = "ts_main_roads" -> "ftl"

\* Step 5: one getNearestFeature query resolves
Step5_Nearest(tableName) ==
    /\ pc = tableName
    /\ \/ /\ Abort(QueryError(tableName))
          /\ an' = an
       \/ /\ ~facilities[tableName].exists
          /\ Abort(MissingRelation(tableName))
          /\ an' = an
       \/ /\ facilities[tableName].exists
          /\ LET data == NearestData(NearestRows(tableName, req.village, req.surveyNumber))
             IN an' = CASE tableName = "ts_policestations" -> [an EXCEPT !.policeData = data]
                        [] tableName = "ts_hospitals" -> [an EXCEPT !.hospitalData = data]
                        [] tableName = "ts_main_roads" -> [an EXCEPT !.roadData = data]
          /\ Send(AfterNearest(tableName))
          /\ pc' = AfterNearest(tableName)
          /\ UNCHANGED <<analysisResult, res, row, ts_warangal_survey, gid_seq,
                         analysisStore>>
    /\ Bind(an')
    /\ UNCHANGED <<aside, store, req, prevRes, runs>>

\* Step 6: the overlap query resolves
Step6_Ftl ==
    /\ pc = "ftl"
    /\ \/ /\ Abort(QueryError("ftl"))
          /\ an' = an
       \/ /\ an' = [an EXCEPT !.ftlPercentage = ftlPercentage(FtlRows(params.ftl[1]))]
          /\ Send("tanks")
          /\ pc' = "tanks"
          /\ UNCHANGED <<analysisResult, res, row, ts_warangal_survey, gid_seq,
                         analysisStore>>
    /\ Bind(an')
    /\ UNCHANGED <<aside, store, req, prevRes, runs>>

\* the tank geometry query resolves; Steps 7 and 8; analyzeSurvey calls
\* SurveyResult.create, which sends the INSERT
Step6_Tanks ==
    /\ pc = "tanks"
    /\ \/ /\ Abort(QueryError("tanks"))
          /\ an' = an
       \/ LET rows == TanksRows(params.tanks[1])
              l == [an EXCEPT !.tanksGeoJSON =
                       IF Len(rows) > 0 /\ rows[1].geojson # Null THEN rows[1].geojson ELSE Null]
          IN /\ an' = l
             /\ analysisResult' = CompleteResult(l, req.village, req.surveyNumber, runs)
             /\ analysisStore' = ResultReturned(analysisStore, analysisResult')
             /\ Send("insert")
             /\ pc' = "insert"
             /\ UNCHANGED <<res, row, ts_warangal_survey, gid_seq>>
    /\ Bind(an')
    /\ UNCHANGED <<aside, store, req, prevRes, runs>>

\* the catch block of analyzeSurvey
Respond500(message) ==
    /\ res' = [status |-> 500, data |-> [error |-> message]]
    /\ pc' = "idle"

\* SurveyResult.create: the INSERT resolves
Create_Insert ==
    /\ pc = "insert"
    /\ \/ /\ Respond500(QueryError("insert"))
          /\ UNCHANGED <<row, ts_warangal_survey, gid_seq, issued>>
       \/ /\ row' = Some([gid |-> gid_seq, surveyno |-> req.surveyNumber,
                          village |-> req.village])
          /\ ts_warangal_survey' = ts_warangal_survey \cup
                { [gid |-> gid_seq, surveyno |-> req.surveyNumber, village |-> req.village,
                   geom |-> IF "longitude" \in DOMAIN analysisResult
                            THEN ST_Multi(ST_Buffer(
                                   Pt(analysisResult.longitude, analysisResult.latitude),
                                   bufferRadiusMeters))
                            ELSE SqlNullGeometry] }
          /\ gid_seq' = gid_seq + 1
          /\ Send("center")
          /\ pc' = "center"
          /\ res' = res
    /\ UNCHANGED <<aside, store, req, prevRes, runs, an, analysisResult, analysisStore,
                   params>>

\* SurveyResult.create: the centre query resolves, AnalysisStore.set, the answer
Create_Center ==
    /\ pc = "center"
    /\ \/ /\ Respond500(QueryError("center"))
          /\ UNCHANGED analysisStore
       \/ LET inserted == CHOOSE r \in ts_warangal_survey : r.gid = row[1].gid
              analysisData == AnalysisData(analysisResult, runs)
          IN /\ analysisStore' = AnalysisStoreSet(analysisStore, Num(row[1].gid), analysisData, runs)
             /\ res' = [status |-> 200,
                        data |-> [success |-> TRUE,
                                  data |-> SavedResult(row[1], ST_Centroid(inserted.geom),
                                                       analysisData)]]
             /\ pc' = "idle"
    /\ UNCHANGED <<aside, store, req, prevRes, runs, an, analysisResult, row, issued,
                   ts_warangal_survey, gid_seq, params>>

Next ==
    \/ \E village \in Villages, surveyNumber \in SurveyNumbers :
          AnalyzeSurvey(village, surveyNumber)
    \/ Step1_Centroid
    \/ Step2_Isochrone
    \/ Step2_Buffer
    \/ Step3_Poi
    \/ \E tableName \in FacilityKinds : Step5_Nearest(tableName)
    \/ Step6_Ftl
    \/ Step6_Tanks
    \/ Create_Insert
    \/ Create_Center

Spec == Init /\ [][Next]_vars

\* The store answers every query it is sent, with rows or with an error; the
\* client and the routing service owe the request nothing.
StoreSteps ==
    \/ Step1_Centroid
    \/ Step2_Buffer
    \/ Step3_Poi
    \/ \E tableName \in FacilityKinds : Step5_Nearest(tableName)
    \/ Step6_Ftl
    \/ Step6_Tanks
    \/ Create_Insert
    \/ Create_Center

LiveSpec == Init /\ [][Next]_vars /\ WF_vars(StoreSteps)

\* ------------------------------------------------ two requests at a time
\* what belongs to one request: where it is suspended and what its handler
\* and its call of analyzeLocation hold
Request ==
    [pc |-> pc, req |-> req, an |-> an, analysisResult |-> analysisResult,
     row |-> row, res |-> res, issued |-> issued, params |-> params]

NotStarted ==
    [pc |-> "idle", req |-> [village |-> "", surveyNumber |-> ""], an |-> Locals,
     analysisResult |-> NoResult, row |-> Null, res |-> NoResponse,
     issued |-> << >>, params |-> NoParams]

\* (the locals of analyzeLocation declared once, outside the function)
ResumeShared(saved, running) == [saved EXCEPT !.an = running.an]
\* a continuation resumes with the variables of its own call
Resume(saved, running) == saved

\* the running request is suspended at its await and the event loop resumes
\* the other one
Switch ==
    /\ other # Null
    /\ other' = Some(Request)
    /\ LET next == Resume(other[1], Request)
       IN /\ pc' = next.pc
          /\ req' = next.req
          /\ an' = next.an
          /\ analysisResult' = next.analysisResult
          /\ row' = next.row
          /\ res' = next.res
          /\ issued' = next.issued
          /\ params' = next.params
    /\ UNCHANGED <<store, ts_warangal_survey, gid_seq, analysisStore, prevRes, runs,
                   variant, readRes, calls, paymentStore, orders, clock>>

\* stores under which an analysis completes, falls back or fails
TwoRequestWorlds ==
    {w \in Worlds :
        /\ w.token
        /\ w.routing.outcome = "http_error"
             \/ (w.routing.json # Null /\ w.routing.json[1].features = Some(<<Feat("Polygon")>>))
        /\ w.poi = PoiSmall
        /\ w.fac \in {Populated,
                      [Populated EXCEPT !["ts_hospitals"] = [exists |-> FALSE, rows |-> {}]]}
        /\ w.tanks \in {{}, {[gid |-> 1, shared |-> 901]}}}

TwoRequestsInit ==
    /\ \E w \in TwoRequestWorlds :
        /\ MAPBOX_TOKEN = w.token
        /\ routing = w.routing
        /\ ts_overture_poi_3 = w.poi
        /\ facilities = w.fac
        /\ ts_tanks = w.tanks
    /\ ts_warangal_survey_centroids = CentroidRows
    /\ ts_warangal_survey = ParcelRows
    /\ gid_seq = 3
    /\ analysisStore = << >>
    /\ pc = NotStarted.pc
    /\ req = NotStarted.req
    /\ an = NotStarted.an
    /\ analysisResult = NotStarted.analysisResult
    /\ row = NotStarted.row
    /\ res = NotStarted.res
    /\ issued = NotStarted.issued
    /\ params = NotStarted.params
    /\ prevRes = NoResponse
    /\ runs = 0
    /\ other = Some(NotStarted)
    /\ NoReads
    /\ NoStoreCalls
    /\ NoPayments

TwoRequestsNext ==
    \/ Next
    \/ Switch

TwoRequests == TwoRequestsInit /\ [][TwoRequestsNext]_vars

\* ------------------------------------------- reading a stored result back
\* the two files a SurveyResult class is defined in
Variants == {"models/SurveyResult.js", "controllers/paymentController.js"}

\* oldBreakdown.x || 0, in tenths of a point
OrZero(breakdown, field) == IF field \in DOMAIN breakdown THEN breakdown[field] ELSE 0

\* the test findById of controllers/paymentController.js takes for a breakdown
\* "in old format"; !oldBreakdown.amenity_score is true of a missing field
\* and of 0
OldFormat(breakdown) ==
    \/ "police_distance_score" \in DOMAIN breakdown
    \/ "supportive_businesses_score" \in DOMAIN breakdown
    \/ "ftl_penalty" \in DOMAIN breakdown
    \/ OrZero(breakdown, "amenity_score") = 0

newBreakdown(oldBreakdown) ==
    [poi_score |-> Min(300, OrZero(oldBreakdown, "poi_score")),
     amenity_score |-> Min(250, OrZero(oldBreakdown, "police_distance_score")
                                  + OrZero(oldBreakdown, "hospital_distance_score")
                                  + OrZero(oldBreakdown, "road_distance_score")),
     ftl_score |-> IF "ftl_score" \in DOMAIN oldBreakdown
                   THEN Min(200, oldBreakdown.ftl_score)
                   ELSE IF "ftl_penalty" \in DOMAIN oldBreakdown
                   THEN Min(200, Max(0, 200 - oldBreakdown.ftl_penalty))
                   ELSE 0,
     business_score |-> Min(150, OrZero(oldBreakdown, "supportive_businesses_score")),
     accessibility_score |-> Min(100, OrZero(oldBreakdown, "accessibility_score"))]

\* SurveyResult.findById: what it returns and what it leaves in AnalysisStore
findById(id, now) ==
    LET rows == {r \in ts_warangal_survey : r.gid = id}
        found == CHOOSE r \in rows : TRUE
        got == AnalysisStoreGet(analysisStore, Num(found.gid))
        convert == /\ variant = "controllers/paymentController.js"
                   /\ got # Null
                   /\ "score_breakdown" \in DOMAIN got[1].data
                   /\ OldFormat(got[1].data.score_breakdown)
        analysisData ==
            IF got = Null THEN Null
            ELSE IF convert
            THEN Some([got[1].data EXCEPT
                          !.score_breakdown = newBreakdown(got[1].data.score_breakdown)])
            ELSE Some(got[1].data)
    IN IF rows = {} THEN [result |-> Null, store |-> analysisStore]
       ELSE [result |-> Some([id |-> ToString(found.gid), gid |-> found.gid,
                              village |-> found.village, survey_number |-> found.surveyno,
                              analysis |-> analysisData]),
             store |-> IF convert
                       THEN AnalysisStoreSet(analysisStore, Num(found.gid), analysisData[1], now)
                       ELSE analysisStore]

NotFound == [status |-> 404, data |-> [error |-> "Survey result not found"]]

\* GET /survey-results/:id
getSurveyResult(id) ==
    /\ LET found == findById(id, runs)
       IN /\ readRes' = IF found.result = Null THEN NotFound
                        ELSE [status |-> 200,
                              data |-> [success |-> TRUE, data |-> found.result[1]]]
          /\ analysisStore' = found.store
    /\ UNCHANGED <<store, ts_warangal_survey, gid_seq, pc, req, an, analysisResult, row,
                   res, prevRes, issued, runs, params, other, variant, calls,
                   paymentStore, orders, clock>>

\* the FTL Zone Analysis card: result.ftl_zone_percentage || 0, the threshold
\* once more, and the status line
ftlCard(result) ==
    LET rawFtlPercentage ==
            IF result.analysis # Null /\ "ftl_zone_percentage" \in DOMAIN result.analysis[1]
            THEN result.analysis[1].ftl_zone_percentage
            ELSE 0
        shown == IF rawFtlPercentage > 9 THEN rawFtlPercentage ELSE 0
    IN [ftlPercentage |-> shown,
        status |-> IF shown = 0 THEN "No Risk" ELSE "At Risk"]

\* POST /export-report with surveyResultId (0: none given)
exportReportPDF(surveyResultId) ==
    /\ IF surveyResultId = 0
       THEN /\ readRes' = [status |-> 400,
                           data |-> [error |-> "Survey result ID is required"]]
            /\ UNCHANGED analysisStore
       ELSE LET found == findById(surveyResultId, runs)
            IN /\ readRes' = IF found.result = Null THEN NotFound
                             ELSE [status |-> 200,
                                   pdf |-> [gid |-> found.result[1].gid,
                                            ftl |-> ftlCard(found.result[1])]]
               /\ analysisStore' = found.store
    /\ UNCHANGED <<store, ts_warangal_survey, gid_seq, pc, req, an, analysisResult, row,
                   res, prevRes, issued, runs, params, other, variant, calls,
                   paymentStore, orders, clock>>

\* stores with no facility in reach, and with a hazard zone over 0 %, 9.49 %
\* and 10 % of the polygon; the routing service answers with a polygon, or
\* with an error status over the plain store
ReadBackWorlds ==
    {w \in Worlds :
        /\ w.token
        /\ w.poi = PoiSmall
        /\ \/ /\ w.routing.json # Null
              /\ w.routing.json[1].features = Some(<<Feat("Polygon")>>)
              /\ \/ /\ w.fac = Populated
                    /\ w.tanks \in {{}} \cup {{[gid |-> 1, shared |-> a]} : a \in {949, 1000}}
                 \/ /\ w.tanks = {}
                    /\ \A t \in FacilityKinds : w.fac[t] = [exists |-> TRUE, rows |-> {}]
           \/ /\ w.routing.outcome = "http_error"
              /\ w.fac = Populated
              /\ w.tanks = {}}

ReadBackInit ==
    /\ \E w \in ReadBackWorlds :
        /\ MAPBOX_TOKEN = w.token
        /\ routing = w.routing
        /\ ts_overture_poi_3 = w.poi
        /\ facilities = w.fac
        /\ ts_tanks = w.tanks
    /\ ts_warangal_survey_centroids = CentroidRows
    /\ ts_warangal_survey = ParcelRows
    /\ gid_seq = 3
    /\ analysisStore = << >>
    /\ pc = "idle"
    /\ req = [village |-> "", surveyNumber |-> ""]
    /\ an = Locals
    /\ analysisResult = NoResult
    /\ row = Null
    /\ res = NoResponse
    /\ prevRes = NoResponse
    /\ issued = << >>
    /\ runs = 0
    /\ params = NoParams
    /\ variant \in Variants
    /\ readRes = NoResponse
    /\ OneRequest
    /\ NoStoreCalls
    /\ NoPayments

\* the ids a client asks for: the parcels, the results stored, one unknown
ReadIds == 1..(3 + MaxRuns)

ReadBackNext ==
    \/ Next
    \/ \E id \in ReadIds : getSurveyResult(id)
    \/ \E surveyResultId \in {0} \cup ReadIds : exportReportPDF(surveyResultId)

ReadBack == ReadBackInit /\ [][ReadBackNext]_vars

\* -------------------------------------------- the AnalysisStore by itself
MaxCalls == 3

\* the state of everything but the AnalysisStore while it is called directly
NoAnalysis ==
    /\ MAPBOX_TOKEN = FALSE
    /\ routing = [outcome |-> "network_error", ok |-> FALSE, json |-> Null]
    /\ ts_overture_poi_3 = << >>
    /\ facilities = Populated
    /\ ts_tanks = {}
    /\ ts_warangal_survey_centroids = CentroidRows
    /\ ts_warangal_survey = ParcelRows
    /\ gid_seq = 3
    /\ pc = "idle"
    /\ an = Locals
    /\ analysisResult = NoResult
    /\ row = Null
    /\ prevRes = NoResponse
    /\ issued = << >>
    /\ runs = 0
    /\ params = NoParams
    /\ OneRequest
    /\ NoReads

\* ids whose string forms meet, and one apart
StoreIds == {Num(3), Str("3"), Num(4)}
Analyses == {[development_score |-> 40], [development_score |-> 70]}

\* AnalysisStore.set(surveyId, analysisData), new Date() having moved on or not
AnalysisStore_set(surveyId, analysisData, elapsed) ==
    /\ Len(calls) < MaxCalls
    /\ clock' = clock + elapsed
    /\ analysisStore' = AnalysisStoreSet(analysisStore, surveyId, analysisData, clock')
    /\ calls' = Append(calls, [op |-> "set", surveyId |-> surveyId,
                               analysisData |-> Some(analysisData), at |-> clock'])
    /\ UNCHANGED <<store, ts_warangal_survey, gid_seq, pc, req, an, analysisResult, row,
                   res, prevRes, issued, runs, params, other, variant, readRes,
                   paymentStore, orders>>

\* AnalysisStore.delete(surveyId)
AnalysisStore_delete(surveyId) ==
    /\ Len(calls) < MaxCalls
    /\ analysisStore' = AnalysisStoreDelete(analysisStore, surveyId)
    /\ calls' = Append(calls, [op |-> "delete", surveyId |-> surveyId,
                               analysisData |-> Null, at |-> clock])
    /\ UNCHANGED <<store, ts_warangal_survey, gid_seq, pc, req, an, analysisResult, row,
                   res, prevRes, issued, runs, params, other, variant, readRes,
                   paymentStore, orders, clock>>

StoreCallsInit ==
    /\ NoAnalysis
    /\ req = [village |-> "", surveyNumber |-> ""]
    /\ res = NoResponse
    /\ analysisStore = << >>
    /\ calls = << >>
    /\ paymentStore = << >>
    /\ orders = {}
    /\ clock = 0

StoreCallsNext ==
    \/ \E surveyId \in StoreIds, analysisData \in Analyses, elapsed \in {0, 1} :
          AnalysisStore_set(surveyId, analysisData, elapsed)
    \/ \E surveyId \in StoreIds : AnalysisStore_delete(surveyId)

StoreCalls == StoreCallsInit /\ [][StoreCallsNext]_vars

\* ------------------------------------------------------------- payments
MaxOrders == 2

\* the static methods class Payment has
PaymentStatics == {"create", "find", "findById", "updateStatus"}

\* crypto.createHmac('sha256', key).update(`${order}|${payment}`).digest('hex')
\* keeps its three inputs apart
Hmac(key, razorpay_order_id, razorpay_payment_id) ==
    <<key, razorpay_order_id, razorpay_payment_id>>

\* Payment.create: the record goes under razorpay_payment_id, or under
\* `payment_${Date.now()}` when there is none
PaymentCreate(map, data, now) ==
    LET paymentId == IF data.razorpay_payment_id # 0
                     THEN <<"razorpay", data.razorpay_payment_id>>
                     ELSE <<"payment_", now>>
        payment == [id |-> paymentId,
                    survey_result_id |-> data.survey_result_id,
                    razorpay_order_id |-> data.razorpay_order_id,
                    razorpay_payment_id |-> data.razorpay_payment_id,
                    razorpay_signature |-> data.razorpay_signature,
                    amount |-> data.amount,
                    payment_status |-> data.payment_status,
                    created_at |-> now]
    IN [k \in DOMAIN map \cup {paymentId} |-> IF k = paymentId THEN payment ELSE map[k]]

\* the body of a payment request
OrderBody(amount, surveyResultId) ==
    [handler |-> "createOrder", amount |-> amount, surveyResultId |-> surveyResultId]
VerifyBody(order, payment, signature) ==
    [handler |-> "verifyPayment", razorpay_order_id |-> order,
     razorpay_payment_id |-> payment, razorpay_signature |-> signature]

\* POST /payments/create-order; the gateway accepts the order or fails, and
\* Date.now() has moved on since the last record or has not
createOrder(amount, surveyResultId, accepted, elapsed) ==
    /\ req' = OrderBody(amount, surveyResultId)
    /\ IF amount <= 0
       THEN /\ res' = [status |-> 400, data |-> [error |-> "Invalid amount"]]
            /\ UNCHANGED <<orders, paymentStore, clock>>
       ELSE IF ~accepted
       THEN /\ res' = [status |-> 500, data |-> [error |-> "Failed to create order"]]
            /\ UNCHANGED <<orders, paymentStore, clock>>
       ELSE /\ Cardinality(orders) < MaxOrders
            /\ LET order == [id |-> Cardinality(orders) + 1, amount |-> amount * 100,
                             notes |-> [survey_result_id |-> surveyResultId]]
               IN /\ orders' = orders \cup {order}
                  /\ clock' = clock + elapsed
                  /\ paymentStore' =
                        PaymentCreate(paymentStore,
                                      [survey_result_id |-> surveyResultId,
                                       razorpay_order_id |-> order.id,
                                       razorpay_payment_id |-> 0,
                                       razorpay_signature |-> << >>,
                                       amount |-> amount,
                                       payment_status |-> "pending"],
                                      clock')
                  /\ res' = [status |-> 200,
                             data |-> [success |-> TRUE, order_id |-> order.id,
                                       amount |-> order.amount]]
    /\ UNCHANGED <<store, ts_warangal_survey, gid_seq, analysisStore, pc, an,
                   analysisResult, row, prevRes, issued, runs, params, other, variant,
                   readRes, calls>>

\* POST /payments/verify; 0 and << >> stand for a field left out
verifyPayment(razorpay_order_id, razorpay_payment_id, razorpay_signature) ==
    /\ req' = VerifyBody(razorpay_order_id, razorpay_payment_id, razorpay_signature)
    /\ res' =
         IF razorpay_order_id = 0 \/ razorpay_payment_id = 0 \/ razorpay_signature = << >>
         THEN [status |-> 400, data |-> [error |-> "Missing payment details"]]
         ELSE IF Hmac("RAZORPAY_KEY_SECRET", razorpay_order_id, razorpay_payment_id)
                    # razorpay_signature
         THEN [status |-> 400, data |-> [error |-> "Invalid payment signature"]]
         ELSE IF "filter" \notin PaymentStatics
         THEN [status |-> 500, data |-> [error |-> "Payment.filter is not a function"]]
         ELSE [status |-> 200,
               data |-> [success |-> TRUE, message |-> "Payment verified successfully"]]
    /\ UNCHANGED <<orders, paymentStore, clock>>
    /\ UNCHANGED <<store, ts_warangal_survey, gid_seq, analysisStore, pc, an,
                   analysisResult, row, prevRes, issued, runs, params, other, variant,
                   readRes, calls>>

PaymentsInit ==
    /\ NoAnalysis
    /\ req = [village |-> "", surveyNumber |-> ""]
    /\ res = NoResponse
    /\ analysisStore = << >>
    /\ NoStoreCalls
    /\ NoPayments

PaymentsNext ==
    \/ \E amount \in {0, 499, 699}, surveyResultId \in {3, 4},
          accepted \in BOOLEAN, elapsed \in {0, 1} :
          createOrder(amount, surveyResultId, accepted, elapsed)
    \/ \E order \in 0..MaxOrders, payment \in 0..1, key \in {"RAZORPAY_KEY_SECRET", "guess"},
          signed \in BOOLEAN :
          verifyPayment(order, payment,
                        IF signed THEN Hmac(key, order, payment) ELSE << >>)

Payments == PaymentsInit /\ [][PaymentsNext]_vars

\* ================================================================ claims
Returned == analysisResult # NoResult
Full(r) == "development_score" \in DOMAIN r
IsError(r) == "error" \in DOMAIN r
Sent(name) == \E i \in DOMAIN issued : issued[i] = name
Tables == <<ts_warangal_survey, gid_seq, analysisStore>>
ParcelCenter(village, surveyNumber) ==
    (CHOOSE c \in CentroidRows : c.village = village /\ c.surveyno = surveyNumber).geom

\* the first feature's geometry in the stub's answer, if it has one
FirstGeometry(stub) ==
    IF stub.ok /\ stub.json # Null /\ stub.json[1].features # Null
       /\ Len(stub.json[1].features[1]) > 0
    THEN stub.json[1].features[1][1].geometry
    ELSE Null
GivesPolygon(stub) ==
    FirstGeometry(stub) # Null /\ FirstGeometry(stub)[1].type \in {"Polygon", "MultiPolygon"}
GivesOtherGeometry(stub) ==
    FirstGeometry(stub) # Null /\ FirstGeometry(stub)[1].type \notin {"Polygon", "MultiPolygon"}

StoreErrors ==
    {QueryError(q) : q \in {"buffer", "poi", "ftl", "tanks"} \cup FacilityKinds}
    \cup {MissingRelation(t) : t \in FacilityKinds}
NotFoundMessage == "No matching survey centroid found. Check village and survey number."
TokenMessage == "Mapbox token not configured. Please set MAPBOX_TOKEN in environment variables."

\* C1: every completed analysis has 0 <= development_score <= 100 and every
\* sub-score of score_breakdown within 0 and its cap (30, 25, 20, 15, 10
\* points; the breakdown is in tenths of a point).
C1_ScoreBounds ==
    Full(analysisResult) =>
        LET b == analysisResult.score_breakdown IN
        /\ analysisResult.development_score \in 0..100
        /\ b.poi_score \in 0..300
        /\ b.amenity_score \in 0..250
        /\ b.ftl_score \in 0..200
        /\ b.business_score \in 0..150
        /\ b.accessibility_score \in 0..100

\* C1 witness: a completed analysis with more than 100 POIs (poi_score at its
\* cap), no police station at all and a summed hazard overlap above 100 %.
C1_Witness ==
    /\ Full(analysisResult)
    /\ analysisResult.total_pois > 100
    /\ analysisResult.score_breakdown.poi_score = 300
    /\ analysisResult.distance_to_police = Null
    /\ analysisResult.ftl_zone_percentage > 100
    /\ analysisResult.score_breakdown.ftl_score = 0

\* C2: in a completed analysis, a non-success status, a network failure or a
\* first feature that is no Polygon/MultiPolygon gives used_fallback = TRUE and
\* the 1000 m buffer around the parcel centre as isochrone_geometry; a
\* Polygon or MultiPolygon gives used_fallback = FALSE and exactly that geometry.
C2_FallbackActivation ==
    Full(analysisResult) =>
        LET r == analysisResult IN
        /\ (routing.outcome \in {"http_error", "network_error"} \/ GivesOtherGeometry(routing))
             => /\ r.used_fallback = TRUE
                /\ r.map_data.isochrone_geometry =
                       [type |-> "Polygon", origin |-> "ST_Buffer",
                        center |-> ParcelCenter(r.village, r.survey_number), radius |-> 1000]
        /\ GivesPolygon(routing)
             => /\ r.used_fallback = FALSE
                /\ r.map_data.isochrone_geometry = FirstGeometry(routing)[1]

\* C2 witness: a completed analysis whose routing answer led with a Point.
C2_Witness ==
    /\ Full(analysisResult)
    /\ GivesOtherGeometry(routing)
    /\ analysisResult.used_fallback
    /\ analysisResult.map_data.isochrone_geometry.origin = "ST_Buffer"

C4_RoutingWaitEnds == (pc = "isochrone") ~> Returned

\* C5: a request sends at most one isochrone request, and what follows it is
\* the fallback buffer query when it failed (the POI query when it succeeded).
C5_NeverRetried ==
    /\ Cardinality({i \in DOMAIN issued : issued[i] = "isochrone"}) <= 1
    /\ \A i \in DOMAIN issued :
          (issued[i] = "isochrone" /\ i < Len(issued))
              => issued[i + 1] = IF an.usedFallback THEN "buffer" ELSE "poi"

\* C5 witness: a completed analysis whose one isochrone request failed and was
\* followed by the buffer query.
C5_Witness ==
    /\ Full(analysisResult)
    /\ routing.outcome = "http_error"
    /\ \E i \in DOMAIN issued : issued[i] = "isochrone" /\ issued[i + 1] = "buffer"

\* C6: without MAPBOX_TOKEN nothing but the geometry lookup is ever sent, no
\* full result and no fallback is produced, nothing is persisted, and a request
\* for a found parcel whose lookup succeeded ends in the configuration error
\* with status 500.
C6_ConfigurationError ==
    ~MAPBOX_TOKEN =>
        /\ \A i \in DOMAIN issued : issued[i] = "centroid"
        /\ ~Full(analysisResult)
        /\ ~an.usedFallback
        /\ ts_warangal_survey = ParcelRows /\ analysisStore = << >> /\ row = Null
        /\ (Returned /\ CentroidMatches(req.village, req.surveyNumber) # {})
             => /\ IsError(analysisResult)
                /\ analysisResult.error \in {TokenMessage, QueryError("centroid")}
                /\ res.status = 500

\* C6 witness: the configuration error returned for a found parcel.
C6_Witness ==
    /\ ~MAPBOX_TOKEN
    /\ CentroidMatches(req.village, req.surveyNumber) # {}
    /\ analysisResult = [error |-> TokenMessage]
    /\ res.status = 500

\* C7: while the request names a parcel without a centroid row, no step changes
\* ts_warangal_survey or the AnalysisStore, and what analyzeLocation returns
\* carries only an error, after the geometry lookup alone, answered with 500.
NoMatch ==
    /\ req.village # "" /\ req.surveyNumber # ""
    /\ CentroidMatches(req.village, req.surveyNumber) = {}
NotFoundOutcome ==
    Returned => /\ DOMAIN analysisResult = {"error"}
                /\ issued = <<"centroid">>
                /\ row = Null
                /\ res.status = 500
C7_NotFoundIsFatal ==
    [][NoMatch' => (UNCHANGED Tables /\ NotFoundOutcome')]_vars

\* C7 witness: the not-found error returned when an earlier analysis is stored.
C7_Witness ==
    /\ NoMatch
    /\ analysisResult = [error |-> NotFoundMessage]
    /\ analysisStore # << >>

C9_Deterministic ==
    (res.status = 200 /\ prevRes.status = 200
       /\ res.data.data.village = prevRes.data.data.village
       /\ res.data.data.survey_number = prevRes.data.data.survey_number)
        => /\ res.data.data.analysis.score_breakdown
                = prevRes.data.data.analysis.score_breakdown
           /\ res.data.data.analysis.development_score
                = prevRes.data.data.analysis.development_score

\* C9 witness: the same parcel analysed and stored twice in a row, with POIs of
\* a supportive category in reach.
C9_Witness ==
    /\ res.status = 200 /\ prevRes.status = 200
    /\ res.data.data.survey_number = prevRes.data.data.survey_number
    /\ res.data.data.gid # prevRes.data.data.gid
    /\ Len(res.data.data.analysis.supportive_businesses) > 0

\* C10 as claimed: a facility table that is missing or empty never makes the
\* analysis fail, and a completed analysis has null for that kind's distance
\* and nearest feature.
C10_MissingFacilityIsNull ==
    Returned =>
        /\ IsError(analysisResult)
             => analysisResult.error \notin {MissingRelation(t) : t \in FacilityKinds}
        /\ Full(analysisResult) =>
             LET r == analysisResult IN
             /\ facilities["ts_policestations"].rows = {}
                  => r.distance_to_police = Null /\ r.map_data.nearest_police = Null
             /\ facilities["ts_hospitals"].rows = {}
                  => r.distance_to_hospital = Null /\ r.map_data.nearest_hospital = Null
             /\ facilities["ts_main_roads"].rows = {}
                  => r.distance_to_main_road = Null /\ r.map_data.nearest_road = Null

\* the tanks that intersect a reachability polygon and the area they share
\* with it, each tank counted on its own
HazardHit == {t \in ts_tanks : t.shared > 0}
OverlapArea(geom) ==
    SumSeq([g \in 1..3 |->
        IF \E t \in HazardHit : t.gid = g
        THEN Min((CHOOSE t \in HazardHit : t.gid = g).shared, ST_Area(geom))
        ELSE 0])

\* C11: with r the summed overlap as a percentage of the reachability area,
\* ftl_zone_percentage is 0 when r <= 9 and the integer nearest to r when
\* r > 9 (so r = 9 gives 0 and r = 9.01 gives 9); it is 0 when the area is
\* zero or no hazard feature intersects it.
C11_HazardThreshold ==
    Full(analysisResult) =>
        LET pct == analysisResult.ftl_zone_percentage
            area == ST_Area(analysisResult.map_data.isochrone_geometry)
            total == OverlapArea(analysisResult.map_data.isochrone_geometry)
        IN /\ (HazardHit = {} \/ area = 0) => pct = 0
           /\ (HazardHit # {} /\ area > 0 /\ 100 * total <= 9 * area) => pct = 0
           /\ (HazardHit # {} /\ area > 0 /\ 100 * total > 9 * area)
                 => /\ (2 * pct - 1) * area <= 200 * total
                    /\ 200 * total < (2 * pct + 1) * area

\* C11 witness: a completed analysis whose raw overlap is 9.01 %, reported as 9.
C11_Witness ==
    /\ Full(analysisResult)
    /\ ts_tanks = {[gid |-> 1, shared |-> 901]}
    /\ ST_Area(analysisResult.map_data.isochrone_geometry) = 10000
    /\ analysisResult.ftl_zone_percentage = 9

\* C12 as claimed: in every completed analysis ftl_zone_percentage is an
\* integer from 0 to 100, whatever hazard features intersect the reachability
\* area, features lying on one another included.
C12_HazardPercentRange ==
    Full(analysisResult) => analysisResult.ftl_zone_percentage \in 0..100

\* the rows the POI query of a completed analysis returned
ReturnedPois == PoiRows(analysisResult.map_data.isochrone_geometry)

\* C13: in every completed analysis the counts of poi_breakdown add up to
\* total_pois, every entry's count is the length of its locations, and every
\* POI the query returned is a location of exactly one entry, the entry of
\* its category.
C13_BreakdownPartition ==
    Full(analysisResult) =>
        LET b == analysisResult.poi_breakdown
            rows == ReturnedPois
            Located(i) == {b[i].locations[j] : j \in 1..Len(b[i].locations)}
        IN /\ analysisResult.total_pois = Len(rows)
           /\ SumSeq([i \in 1..Len(b) |-> b[i].count]) = analysisResult.total_pois
           /\ \A i \in 1..Len(b) :
                 /\ b[i].count = Len(b[i].locations)
                 /\ Cardinality(Located(i)) = Len(b[i].locations)
                 /\ \A j \in 1..Len(b) : i # j => Located(i) \cap Located(j) = {}
           /\ \A k \in 1..Len(rows) :
                 \E i \in 1..Len(b) :
                    /\ b[i].category = PropertyKey(rows[k].category)
                    /\ rows[k].geom \in Located(i)

\* C13 witness: eight POIs of which two have no category and one the label
\* "null", all three in one entry.
C13_Witness ==
    /\ Full(analysisResult)
    /\ analysisResult.total_pois = 8
    /\ \E i \in 1..Len(analysisResult.poi_breakdown) :
          /\ analysisResult.poi_breakdown[i].category = "null"
          /\ analysisResult.poi_breakdown[i].count = 3

\* C14: in every completed analysis every percent of poi_breakdown and of
\* supportive_businesses is a finite number from 0 to 100; without POIs
\* total_pois is 0, both lists are empty and business_score is 0; with POIs
\* of which none is in a supportive category supportive_businesses is empty
\* and business_score is 0.
C14_NoDivisionError ==
    Full(analysisResult) =>
        LET b == analysisResult.poi_breakdown
            sb == analysisResult.supportive_businesses
        IN /\ \A i \in 1..Len(b) : b[i].percent \in 0..10000
           /\ \A i \in 1..Len(sb) : sb[i].percent \in 0..10000
           /\ Len(ReturnedPois) = 0
                 => /\ analysisResult.total_pois = 0
                    /\ b = << >> /\ sb = << >>
                    /\ analysisResult.score_breakdown.business_score = 0
           /\ (\A k \in 1..Len(ReturnedPois) :
                   ReturnedPois[k].category \notin SUPPORTIVE_CATEGORIES)
                 => /\ sb = << >>
                    /\ analysisResult.score_breakdown.business_score = 0

\* C14 witness: a completed analysis of a parcel with POI rows in the table
\* but none in reach.
C14_Witness ==
    /\ Full(analysisResult)
    /\ ts_overture_poi_3 # << >>
    /\ analysisResult.total_pois = 0
    /\ analysisResult.score_breakdown.business_score = 0

\* the five values of a score_breakdown added up, in tenths of a point
ReportedSum(b) ==
    b.poi_score + b.amenity_score + b.ftl_score + b.business_score + b.accessibility_score

\* C15 as claimed: in every completed analysis development_score is the sum of
\* the five values reported in score_breakdown, rounded to the nearest integer.
C15_AuditableFromBreakdown ==
    Full(analysisResult) =>
        analysisResult.development_score
            = (ReportedSum(analysisResult.score_breakdown) + 5) \div 10

\* the sum of the five sub-scores of a completed analysis before any rounding,
\* from the counts, distances and percentage of the result
ExactSum(r) ==
    poiScore(r.total_pois)
    + amenityScore(r.map_data.nearest_police, r.map_data.nearest_hospital,
                   r.map_data.nearest_road)
    + ftlScore(r.ftl_zone_percentage)
    + businessScore(SumSeq([i \in 1..Len(r.supportive_businesses) |->
                               r.supportive_businesses[i].count]))
    + accessibilityScore(Len(r.poi_breakdown))

\* C15 amended: development_score is the integer nearest to the sum of the
\* five sub-scores before they are rounded for reporting; the sum of the five
\* reported values, rounded, is within 1 of it.
C15_RoundOfUnroundedSum ==
    Full(analysisResult) =>
        LET dev == analysisResult.development_score
            audit == (ReportedSum(analysisResult.score_breakdown) + 5) \div 10
        IN /\ 2 * Points(dev) - Points(1) <= 2 * ExactSum(analysisResult)
           /\ 2 * ExactSum(analysisResult) < 2 * Points(dev) + Points(1)
           /\ dev - 1 <= audit /\ audit <= dev + 1

\* C15 witness: a completed analysis whose development_score is not what the
\* reported values add up to (28 against 0.6 + 5.8 + 20 + 0.8 + 1.3 = 28.5).
C15_Witness ==
    /\ Full(analysisResult)
    /\ analysisResult.development_score = 28
    /\ ReportedSum(analysisResult.score_breakdown) = 285

\* what a facility at distance d (metres, or null) adds to the amenity score
\* under a capacity of cap kilometres, in thousandths of a point
Component(d, cap) == IF d = Null THEN 0 ELSE Max(0, 1000 * cap - d[1].distance_m)

\* C16: amenity_score is min(25, p + h + r) with p = max(0, 10 - police_km),
\* h = max(0, 10 - hospital_km), r = max(0, 5 - road_km), a missing facility
\* adding 0, reported at one decimal; so no component is ever negative.
C16_AmenityFormula ==
    Full(analysisResult) =>
        LET m == analysisResult.map_data
            p == Component(m.nearest_police, 10)
            h == Component(m.nearest_hospital, 10)
            r == Component(m.nearest_road, 5)
        IN /\ p >= 0 /\ h >= 0 /\ r >= 0
           /\ analysisResult.score_breakdown.amenity_score
                = (Min(25000, p + h + r) + 50) \div 100

\* C16 witness: police at 2 km, hospital at 3 km, road at 0.5 km: 19.5.
C16_Witness ==
    /\ Full(analysisResult)
    /\ analysisResult.distance_to_police = Some(2000)
    /\ analysisResult.distance_to_hospital = Some(3000)
    /\ analysisResult.distance_to_main_road = Some(500)
    /\ analysisResult.score_breakdown.amenity_score = 195

\* C17: ftl_score is 20 when ftl_zone_percentage is 0 and max(0, 20 - pct/5)
\* otherwise; over percentages up to MaxPercent it never rises with the
\* percentage, is 0 at 100 and is never negative.
C17_FtlScoreFormula ==
    /\ Full(analysisResult) =>
          LET pct == analysisResult.ftl_zone_percentage
          IN analysisResult.score_breakdown.ftl_score
                 = IF pct = 0 THEN 200 ELSE Max(0, 200 - 2 * pct)
    /\ \A p \in 0..MaxPercent :
          /\ ftlScore(p) >= 0
          /\ p < MaxPercent => ftlScore(p + 1) <= ftlScore(p)
    /\ ftlScore(100) = 0 /\ ftlScore(99) > 0

\* C17 witness: a completed analysis of an area wholly under hazard features,
\* with ftl_score 0.
C17_Witness ==
    /\ Full(analysisResult)
    /\ analysisResult.ftl_zone_percentage = 100
    /\ analysisResult.score_breakdown.ftl_score = 0

\* C18: poi_score = min(30, total_pois/100*30), business_score =
\* min(15, supportive_total/20*15) and accessibility_score =
\* min(10, categories/15*10), reported at one decimal, with supportive_total
\* the counts of supportive_businesses added up and categories the number of
\* entries of poi_breakdown; over counts up to PoiLarge each ramp never falls
\* and reaches its cap exactly at 100 POIs, 20 supportive POIs, 15 categories.
C18_CappedRamps ==
    /\ Full(analysisResult) =>
          LET r == analysisResult
              st == SumSeq([i \in 1..Len(r.supportive_businesses) |->
                               r.supportive_businesses[i].count])
              cc == Len(r.poi_breakdown)
          IN /\ r.score_breakdown.poi_score = Min(300, 3 * r.total_pois)
             /\ r.score_breakdown.business_score = Min(150, (75 * st + 5) \div 10)
             /\ r.score_breakdown.accessibility_score = Min(100, (200 * cc + 15) \div 30)
    /\ \A n \in 0..PoiLarge :
          /\ poiScore(n) <= poiScore(n + 1)
          /\ businessScore(n) <= businessScore(n + 1)
          /\ accessibilityScore(n) <= accessibilityScore(n + 1)
          /\ poiScore(n) = Points(30) <=> n >= 100
          /\ businessScore(n) = Points(15) <=> n >= 20
          /\ accessibilityScore(n) = Points(10) <=> n >= 15
    /\ poiScore(40) = Points(12)

\* C18 witness: 40 POIs in reach, of which 14 supportive, in 16 categories:
\* poi_score 12.0, business_score 10.5, accessibility_score at its cap.
C18_Witness ==
    /\ Full(analysisResult)
    /\ analysisResult.total_pois = 40
    /\ Len(analysisResult.poi_breakdown) = 16
    /\ analysisResult.score_breakdown.poi_score = 120
    /\ analysisResult.score_breakdown.business_score = 105
    /\ analysisResult.score_breakdown.accessibility_score = 100

\* C19 as claimed: the answer to a successful analyze-survey request and the
\* analysis stored for it carry used_fallback, with the value analyzeLocation
\* computed in that run.
C19_FallbackFlagSurfaced ==
    res.status = 200 =>
        LET saved == res.data.data
            stored == analysisStore[saved.id].data
        IN /\ "used_fallback" \in DOMAIN saved.analysis
           /\ saved.analysis.used_fallback = analysisResult.used_fallback
           /\ "used_fallback" \in DOMAIN stored
           /\ stored.used_fallback = analysisResult.used_fallback

\* the position in the query result of the first POI of a category
FirstSeen(rows, category) ==
    CHOOSE k \in 1..Len(rows) :
        /\ PropertyKey(rows[k].category) = category
        /\ \A h \in 1..(k - 1) : PropertyKey(rows[h].category) # category

\* C20 as claimed: poi_breakdown is in descending order of count, and entries
\* of equal count are in the order in which their first POI came in the query
\* result, whatever the labels.
C20_StableCountOrder ==
    Full(analysisResult) =>
        LET b == analysisResult.poi_breakdown
        IN \A i \in 1..Len(b) : \A j \in (i + 1)..Len(b) :
              /\ b[i].count >= b[j].count
              /\ b[i].count = b[j].count
                    => FirstSeen(ReturnedPois, b[i].category)
                          < FirstSeen(ReturnedPois, b[j].category)

\* where a category stands in a list of entries (0 when it has no entry)
PlaceOf(entries, category) ==
    IF \E j \in 1..Len(entries) : entries[j].category = category
    THEN CHOOSE j \in 1..Len(entries) : entries[j].category = category
    ELSE 0

\* C21: supportive_businesses holds exactly the entries of poi_breakdown whose
\* category is Retail, Health And Medical or Accommodation to the letter, with
\* their counts and in their order, and each percent is the count as a
\* percentage of the supportive counts added up, at two decimals.
C21_SupportiveSubset ==
    Full(analysisResult) =>
        LET b == analysisResult.poi_breakdown
            sb == analysisResult.supportive_businesses
            named == {"Retail", "Health And Medical", "Accommodation"}
            total == SumSeq([i \in 1..Len(sb) |-> sb[i].count])
        IN /\ \A i \in 1..Len(sb) :
                 /\ sb[i].category \in named
                 /\ PlaceOf(b, sb[i].category) > 0
                 /\ sb[i].count = b[PlaceOf(b, sb[i].category)].count
                 /\ (2 * sb[i].percent - 1) * total <= 20000 * sb[i].count
                 /\ 20000 * sb[i].count < (2 * sb[i].percent + 1) * total
                 /\ \A j \in (i + 1)..Len(sb) :
                       PlaceOf(b, sb[i].category) < PlaceOf(b, sb[j].category)
           /\ \A j \in 1..Len(b) :
                 b[j].category \in named => PlaceOf(sb, b[j].category) > 0

\* C21 witness: eleven POIs, five of them in the three supportive categories
\* and three more under labels that differ in case or by a suffix; Retail is
\* three fifths of the supportive POIs.
C21_Witness ==
    /\ Full(analysisResult)
    /\ analysisResult.total_pois = 11
    /\ Len(analysisResult.poi_breakdown) = 7
    /\ Len(analysisResult.supportive_businesses) = 3
    /\ analysisResult.supportive_businesses[1] =
           [category |-> "Retail", count |-> 3, percent |-> 6000]

\* the category values, as the table holds them, of the returned POIs that
\* entry i of the breakdown counts
LabelsOf(b, rows, i) ==
    LET located == {b[i].locations[k] : k \in 1..Len(b[i].locations)}
    IN {rows[k].category : k \in {h \in 1..Len(rows) : rows[h].geom \in located}}

\* C22 as claimed: two returned POIs are counted in the same poi_breakdown
\* entry if and only if their category values are identical, a missing
\* category being a value of its own and no label at all: every entry counts
\* POIs of one category value only, no two entries count the same value, and
\* no entry is named "Other" unless POIs carry that label.
C22_GroupedByRawLabel ==
    Full(analysisResult) =>
        LET b == analysisResult.poi_breakdown
            rows == ReturnedPois
        IN /\ \A i \in 1..Len(b) : Cardinality(LabelsOf(b, rows, i)) = 1
           /\ \A i \in 1..Len(b) : \A j \in (i + 1)..Len(b) :
                 LabelsOf(b, rows, i) \cap LabelsOf(b, rows, j) = {}
           /\ \A i \in 1..Len(b) :
                 b[i].category = "Other" => LabelsOf(b, rows, i) = {"Other"}

\* the POI features of the table whose geometry intersects the polygon
Intersecting(geom) ==
    {ts_overture_poi_3[k].geom :
        k \in {h \in 1..Len(ts_overture_poi_3) : ST_Intersects(ts_overture_poi_3[h], geom)}}

\* C23: in every completed analysis total_pois is the number of POI features
\* intersecting the reachability polygon, however many there are, and each of
\* them is among the locations of some poi_breakdown entry.
C23_UnboundedPois ==
    Full(analysisResult) =>
        LET b == analysisResult.poi_breakdown
            hit == Intersecting(analysisResult.map_data.isochrone_geometry)
        IN /\ analysisResult.total_pois = Cardinality(hit)
           /\ hit \subseteq UNION {{b[i].locations[k] : k \in 1..Len(b[i].locations)} :
                                    i \in 1..Len(b)}

\* C23 witness: an analysis that counted more than 500 POIs.
C23_Witness ==
    /\ Full(analysisResult)
    /\ analysisResult.total_pois > 500
    /\ analysisResult.total_pois = Len(ts_overture_poi_3)

\* C24: no step of a request before the persistence step (the INSERT and
\* what follows it) changes a table of the spatial store, the parcels table,
\* its serial or the AnalysisStore, whether the analysis completes, falls
\* back or fails; and what is written is written for a completed analysis.
C24_EngineWritesNothing ==
    [][/\ pc \notin {"insert", "center"} =>
            UNCHANGED <<store, ts_warangal_survey, gid_seq, analysisStore>>
       /\ ~ UNCHANGED <<ts_warangal_survey, gid_seq, analysisStore>> =>
            Full(analysisResult)]_vars

\* C24 witness: an analysis that fell back has returned its result, the
\* INSERT is not yet answered, and the tables and the AnalysisStore are as
\* they were.
C24_Witness ==
    /\ pc = "insert"
    /\ Full(analysisResult)
    /\ analysisResult.used_fallback
    /\ analysisStore = << >>
    /\ ts_warangal_survey = ParcelRows
    /\ gid_seq = 3

\* the place of a request in the order the code sends them
Rank(name) ==
    CASE name = "centroid" -> 1
      [] name = "isochrone" -> 2
      [] name = "buffer" -> 3
      [] name = "poi" -> 4
      [] name = "ts_policestations" -> 5
      [] name = "ts_hospitals" -> 6
      [] name = "ts_main_roads" -> 7
      [] name = "ftl" -> 8
      [] name = "tanks" -> 9
      [] name = "insert" -> 10
      [] name = "center" -> 11
      [] name = "idle" -> 12

\* C26: the requests of a run go out in pipeline order, each after the one
\* before it was answered: the isochrone request only with the centroid in
\* hand; the POI and the overlap query only with the reachability polygon
\* resolved, both carrying that polygon; and a result with scores exists only
\* when the POI query, the three facility lookups, the overlap query and the
\* tank query have all been sent and answered.
C26_PipelineOrder ==
    /\ \A i \in 1..Len(issued) : \A j \in (i + 1)..Len(issued) :
          Rank(issued[i]) < Rank(issued[j])
    /\ Len(issued) > 0 => issued[1] = "centroid" /\ Rank(pc) >= Rank(issued[Len(issued)])
    /\ Sent("isochrone") => an.latitude # Null /\ an.longitude # Null
    /\ Sent("poi") => an.isoGeometry # Null /\ params.poi = an.isoGeometry
    /\ Sent("ftl") => params.ftl = an.isoGeometry /\ params.ftl = params.poi
    /\ Full(analysisResult) =>
          /\ \A name \in {"poi", "ts_policestations", "ts_hospitals", "ts_main_roads",
                           "ftl", "tanks"} : Sent(name)
          /\ Rank(pc) > Rank("tanks")
          /\ analysisResult.map_data.isochrone_geometry = params.poi[1]
          /\ analysisResult.map_data.isochrone_geometry = params.ftl[1]

\* C26 witness: a completed analysis over the routing service's polygon with
\* a hazard zone in it.
C26_Witness ==
    /\ Full(analysisResult)
    /\ ~analysisResult.used_fallback
    /\ analysisResult.ftl_zone_percentage > 0
    /\ params.ftl = params.poi
    /\ params.poi # Null

\* what analyzeLocation(village, surveyNumber) computes from the store and the
\* routing service when no query fails, taken in one piece
AloneLocals(village, surveyNumber) ==
    LET survey == CHOOSE c \in CentroidMatches(village, surveyNumber) : TRUE
        try == IsochroneAttempt(routing)
        geom == IF try.threw THEN ST_Buffer(survey.geom, FALLBACK_WALK_BUFFER_M)
                ELSE try.assigned[1]
        rows == SelectSeq(ts_overture_poi_3, LAMBDA p : ST_Intersects(p, geom))
        categoryMap == CategoryMapOf(rows, << >>)
        breakdown == poiBreakdown(categoryMap, Len(rows))
        tanks == TanksRows(geom)
    IN [latitude |-> Some(survey.geom.lat),
        longitude |-> Some(survey.geom.lon),
        isoGeometry |-> Some(geom),
        usedFallback |-> try.threw,
        totalPois |-> Len(rows),
        categoryMap |-> categoryMap,
        poiBreakdown |-> breakdown,
        supportiveBusinesses |-> supportiveBusinesses(breakdown),
        policeData |-> NearestData(NearestRows("ts_policestations", village, surveyNumber)),
        hospitalData |-> NearestData(NearestRows("ts_hospitals", village, surveyNumber)),
        roadData |-> NearestData(NearestRows("ts_main_roads", village, surveyNumber)),
        ftlPercentage |-> ftlPercentage(FtlRows(geom)),
        tanksGeoJSON |-> tanks[1].geojson]

\* the steps a request suspended at p has behind it
Past(p, name) == Rank(p) > Rank(name)

\* a request shows only what it would have computed alone
AsAlone(r) ==
    LET alone == AloneLocals(r.req.village, r.req.surveyNumber)
        l == r.an
    IN /\ Full(r.analysisResult) =>
            r.analysisResult =
                [CompleteResult(alone, r.req.village, r.req.surveyNumber, 0)
                    EXCEPT !.analysis_date = r.analysisResult.analysis_date]
       /\ IsError(r.analysisResult) =>
            r.analysisResult.error \in
                StoreErrors \cup {QueryError("centroid"), NotFoundMessage}
       /\ (IsError(r.analysisResult) /\ r.analysisResult.error = NotFoundMessage) =>
            CentroidMatches(r.req.village, r.req.surveyNumber) = {}
       /\ (IsError(r.analysisResult) /\ \E t \in FacilityKinds :
                r.analysisResult.error = MissingRelation(t)) =>
            \E t \in FacilityKinds : ~facilities[t].exists
       /\ (r.pc \notin {"idle", "centroid"} /\ r.analysisResult = NoResult) =>
            /\ l.latitude = alone.latitude /\ l.longitude = alone.longitude
            /\ Past(r.pc, "buffer") =>
                  l.isoGeometry = alone.isoGeometry /\ l.usedFallback = alone.usedFallback
            /\ Past(r.pc, "poi") =>
                  /\ l.totalPois = alone.totalPois
                  /\ l.poiBreakdown = alone.poiBreakdown
                  /\ l.supportiveBusinesses = alone.supportiveBusinesses
            /\ Past(r.pc, "ts_policestations") => l.policeData = alone.policeData
            /\ Past(r.pc, "ts_hospitals") => l.hospitalData = alone.hospitalData
            /\ Past(r.pc, "ts_main_roads") => l.roadData = alone.roadData
            /\ Past(r.pc, "ftl") => l.ftlPercentage = alone.ftlPercentage

\* C25: with two requests in flight, in every interleaving of their awaits,
\* each request's result, when it has one, is the result the same request
\* gets alone on the same store and routing answers (or one of the errors it
\* can get alone), and at every await its geometry, POI list, fallback flag
\* and hazard percentage are the ones it would hold alone.
C25_NoInterference ==
    /\ AsAlone(Request)
    /\ other # Null => AsAlone(other[1])

\* C25 witness: two analyses of different parcels, both past the reachability
\* step and neither finished, one of them suspended; the store gives the two
\* parcels different POIs.
C25_Witness ==
    /\ other # Null
    /\ pc \in {"ts_hospitals", "ftl", "tanks"}
    /\ other[1].pc \in {"poi", "ts_policestations", "ts_main_roads"}
    /\ req.surveyNumber = "101"
    /\ other[1].req.surveyNumber = "102"
    /\ an.usedFallback /\ other[1].an.usedFallback
    /\ an.isoGeometry # other[1].an.isoGeometry

\* the stored analysis of a result, if the AnalysisStore has one
StoredAnalysis(gid) ==
    IF ToString(gid) \in DOMAIN analysisStore THEN Some(analysisStore[ToString(gid)].data)
    ELSE Null

\* C27 as claimed: whenever a report is made of a stored analysis, the FTL
\* percentage on it is the stored ftl_zone_percentage and its status is
\* At Risk exactly when that percentage is not 0.
C27_ReportShowsStoredHazard ==
    (readRes.status = 200 /\ "pdf" \in DOMAIN readRes
        /\ StoredAnalysis(readRes.pdf.gid) # Null) =>
        LET stored == StoredAnalysis(readRes.pdf.gid)[1].ftl_zone_percentage
        IN /\ readRes.pdf.ftl.ftlPercentage = stored
           /\ (readRes.pdf.ftl.status = "At Risk") <=> (stored # 0)

\* C28 as claimed: a result that create has answered with is read back with
\* the score_breakdown and the development_score of that answer, and they are
\* what the AnalysisStore holds for it, whatever was read before.
C28_ReadBackUnchanged ==
    \A saved \in {res, prevRes} :
        saved.status = 200 =>
            LET created == saved.data.data
            IN /\ StoredAnalysis(created.gid) # Null =>
                    /\ StoredAnalysis(created.gid)[1].score_breakdown
                          = created.analysis.score_breakdown
                    /\ StoredAnalysis(created.gid)[1].development_score
                          = created.analysis.development_score
               /\ (readRes.status = 200 /\ "data" \in DOMAIN readRes
                     /\ readRes.data.data.gid = created.gid) =>
                    /\ readRes.data.data.analysis # Null
                    /\ readRes.data.data.analysis[1].score_breakdown
                          = created.analysis.score_breakdown
                    /\ readRes.data.data.analysis[1].development_score
                          = created.analysis.development_score

\* the string form of an id: its digits for a number, itself for a string
StringForm(surveyId) ==
    IF surveyId = Num(3) THEN "3" ELSE IF surveyId = Num(4) THEN "4" ELSE surveyId.string

\* the calls made so far on the key, and what the latest of them left there
CallsOn(key) == {i \in 1..Len(calls) : StringForm(calls[i].surveyId) = key}
Latest(key) == calls[CHOOSE i \in CallsOn(key) : \A j \in CallsOn(key) : j <= i]
Held(key) == CallsOn(key) # {} /\ Latest(key).op = "set"

\* C29: after any sequence of set and delete calls, get(id) is the data of
\* the latest set on the string form of id together with its stored_at when
\* that key was set and not deleted since, and null otherwise; has(id) is
\* true exactly when get(id) is not null; getAllIds() is the set of the keys
\* so held. (A call on one id thereby leaves every other key as its own
\* latest call left it.)
C29_KeyValueMap ==
    /\ \A surveyId \in StoreIds :
          LET key == StringForm(surveyId)
              got == AnalysisStoreGet(analysisStore, surveyId)
          IN /\ Held(key) =>
                  got = Some([data |-> Latest(key).analysisData[1],
                              stored_at |-> Latest(key).at])
             /\ ~Held(key) => got = Null
             /\ AnalysisStoreHas(analysisStore, surveyId) <=> got # Null
    /\ AnalysisStoreGetAllIds(analysisStore) = {key \in {"3", "4"} : Held(key)}

\* C29 witness: an analysis set under the number 3, another id set and
\* deleted again; the string "3" gets the analysis.
C29_Witness ==
    /\ Len(calls) = 3
    /\ calls[1].op = "set" /\ calls[1].surveyId = Num(3)
    /\ calls[2].op = "set" /\ calls[2].surveyId = Num(4)
    /\ calls[3].op = "delete" /\ calls[3].surveyId = Num(4)
    /\ AnalysisStoreGet(analysisStore, Str("3")) # Null
    /\ AnalysisStoreGetAllIds(analysisStore) = {"3"}

\* the records a payment store holds for an order
RecordsOf(map, order) == {k \in DOMAIN map : map[k].razorpay_order_id = order}

\* the request carries the signature the gateway's secret gives
ValidlySigned(body) ==
    /\ body.razorpay_order_id # 0
    /\ body.razorpay_payment_id # 0
    /\ body.razorpay_signature
         = Hmac("RAZORPAY_KEY_SECRET", body.razorpay_order_id, body.razorpay_payment_id)

\* C30 as claimed: a createOrder that succeeds leaves exactly one record of
\* its order, pending; a verifyPayment with a valid signature for an order
\* that has one pending record succeeds and leaves exactly one record of the
\* order, completed, with the payment id and the signature in it; a
\* verifyPayment with an invalid signature is answered 400 and leaves the
\* payment store as it was.
C30_PaymentLifecycle ==
    [][/\ (req'.handler = "createOrder" /\ res'.status = 200) =>
            /\ Cardinality(RecordsOf(paymentStore', res'.data.order_id)) = 1
            /\ \A k \in RecordsOf(paymentStore', res'.data.order_id) :
                  paymentStore'[k].payment_status = "pending"
       /\ (req'.handler = "verifyPayment" /\ ValidlySigned(req')
             /\ \E k \in RecordsOf(paymentStore, req'.razorpay_order_id) :
                   paymentStore[k].payment_status = "pending") =>
            /\ res'.status = 200
            /\ Cardinality(RecordsOf(paymentStore', req'.razorpay_order_id)) = 1
            /\ \A k \in RecordsOf(paymentStore', req'.razorpay_order_id) :
                  /\ paymentStore'[k].payment_status = "completed"
                  /\ paymentStore'[k].razorpay_payment_id = req'.razorpay_payment_id
                  /\ paymentStore'[k].razorpay_signature = req'.razorpay_signature
       /\ (req'.handler = "verifyPayment" /\ ~ValidlySigned(req')) =>
            /\ res'.status = 400
            /\ paymentStore' = paymentStore]_vars
====
